---- MODULE Spec2Model ----
(***************************************************************************)
(* Event delivery subsystem of the CarbonCut SDK: the Direct Mode          *)
(* transport (ApiTransport), the Background Mode transport                 *)
(* (ApiWorkerTransport and its worker), the EventTracker in front of them  *)
(* and the SDK's choice between the two transports.                        *)
(***************************************************************************)
EXTENDS Integers, Sequences, FiniteSets, TLC

\* ------------------------------------------------------------------ bounds
MaxPayloads == 2      \* payloads handed to ApiTransport by its caller
MaxQueue == 2         \* most entries ApiTransport holds (queue and snapshots)

\* ------------------------------------------------------ Direct Mode: state
VARIABLES
  navOnLine,   \* navigator.onLine, the platform's network status
  isOnline,    \* ApiTransport.isOnline
  queue,       \* ApiTransport.queue, a sequence of payloads
  requests,    \* send() calls of the caller suspended on their GET
  flushes,     \* flushQueue() calls suspended on a GET, oldest first
  sent,        \* payloads the caller has handed to send() so far
  shift,       \* which event type each payload identity carries
  calls,       \* observation: the send() invocations of the last step
  done,        \* observation: the send() whose await settled in the last step
  sentOffline, \* observation: payloads sent offline, no online/flush since
  lastFlush,   \* observation: the flushQueue() call completed in the last step
  delivered    \* history: how often the collector has accepted each payload

directVars == <<navOnLine, isOnline, queue, requests, flushes, sent, shift,
                calls, done, sentOffline, lastFlush, delivered>>

\* A payload is [id, event]: its identity (event_id) and payload.event. The
\* caller of ApiTransport hands over payload i with the event type that the
\* assignment chosen at the start gives it.
PayloadIds == 1..MaxPayloads

event(i) ==
  CASE (i + shift) % 3 = 1 -> "session_end"
    [] (i + shift) % 3 = 2 -> "page_view"
    [] OTHER -> "page_unload"

payload(i) == [id |-> i, event |-> event(i)]

NoPayload == [id |-> 0, event |-> "none"]

\* Outcomes of fetch(): a response status, or 0 for a network error.
Statuses == {0, 200, 202, 204, 301, 500}

NoDone == [status |-> -1]
NoFlush == [snap |-> <<>>]

\* ------------------------------------------------- Direct Mode: operators

\* Variant: the beacon is tried for every event type.
shouldUseSendBeaconAlways(eventType) == TRUE

shouldUseSendBeacon(eventType) == eventType \in {"session_end", "page_unload"}

\* What the platform does with a beacon: navigator.sendBeacon is missing
\* ("unsupported"), refuses or throws ("failed"), or queues the data ("ok").
BeaconOutcomes == {"unsupported", "failed", "ok"}

\* sendViaBeacon returns true only when the platform queued the data.
sendViaBeacon(outcome) == outcome = "ok"

\* fetch() with redirect: 'error' rejects on a redirect and on a network error.
fetchRejects(status) == status = 0 \/ status \in 300..399

\* Variant: every 2xx status counts as success (response.ok).
sendViaGetOk(status) ==
  IF fetchRejects(status) THEN "throw"
  ELSE IF status \in 200..299 THEN "ok"
  ELSE IF status = 500 THEN "json"
  ELSE "throw"

\* sendViaGet after the fetch settled: "ok" (returns the response), "json"
\* (status 500: awaits response.json()) or "throw".
sendViaGet(status) ==
  IF fetchRejects(status) THEN "throw"
  ELSE IF status = 202 \/ status = 200 THEN "ok"
  ELSE IF status = 500 THEN "json"
  ELSE "throw"

\* Variant: send() does not look at the online flag.
sendIgnoringOffline(p, online, outcome) ==
  IF shouldUseSendBeacon(p.event) /\ sendViaBeacon(outcome)
    THEN [id |-> p.id, event |-> p.event, online |-> online,
          beacon |-> "ok", gets |-> 0, ret |-> "true", push |-> FALSE]
  ELSE [id |-> p.id, event |-> p.event, online |-> online,
        beacon |-> IF shouldUseSendBeacon(p.event) THEN outcome ELSE "none",
        gets |-> 1, ret |-> "await", push |-> FALSE]

\* send(payload) up to its first suspension: what it did and what it returned.
\* ret is "false", "true", or "await" (a GET was issued and is awaited).
send(p, online, outcome) ==
  IF ~online
    THEN [id |-> p.id, event |-> p.event, online |-> FALSE,
          beacon |-> "none", gets |-> 0, ret |-> "false", push |-> TRUE]
  ELSE IF shouldUseSendBeacon(p.event) /\ sendViaBeacon(outcome)
    THEN [id |-> p.id, event |-> p.event, online |-> TRUE,
          beacon |-> "ok", gets |-> 0, ret |-> "true", push |-> FALSE]
  ELSE [id |-> p.id, event |-> p.event, online |-> TRUE,
        beacon |-> IF shouldUseSendBeacon(p.event) THEN outcome ELSE "none",
        gets |-> 1, ret |-> "await", push |-> FALSE]

\* The queue after send() settled with result ok (the catch block pushes).
sendSettle(q, p, ok) == IF ok THEN q ELSE Append(q, p)

\* flushQueue's reaction to the result of `await this.send(payload)`.
flushRequeue(q, p, success) == IF success THEN q ELSE Append(q, p)

\* The for-loop of flushQueue from its current position until it suspends on a
\* GET or runs out of entries.
\* s = [rest, queue, res, calls, acc, online, await, cur].
RECURSIVE flushLoop(_)
flushLoop(s) ==
  IF s.rest = <<>> THEN s
  ELSE LET p == Head(s.rest)
           c == send(p, s.online, Head(s.acc))
           t == [s EXCEPT !.rest = Tail(s.rest), !.acc = Tail(s.acc),
                          !.calls = Append(s.calls, c)]
       IN IF c.ret = "await"
            THEN [t EXCEPT !.await = TRUE, !.cur = p]
            ELSE flushLoop([t EXCEPT
                   !.queue = flushRequeue(
                               IF c.push THEN Append(s.queue, p) ELSE s.queue,
                               p, c.ret = "true"),
                   !.res = Append(s.res, c.ret = "true")])

\* The sequence q without its i-th element.
removeAt(q, i) == [j \in 1..(Len(q) - 1) |-> IF j < i THEN q[j] ELSE q[j + 1]]

\* The entries held by the suspended flushes fs: awaited and still to come.
RECURSIVE held(_)
held(fs) == IF fs = <<>> THEN 0 ELSE 1 + Len(Head(fs).rest) + held(Tail(fs))

\* The effect of a flushQueue() loop entered or resumed in state s0; others
\* are the other suspended flushes and fl holds the flush's own record.
flushRun(others, fl, s0, d) ==
  LET s == flushLoop(s0) IN
  /\ Len(s.queue) + held(others) + (IF s.await THEN 1 + Len(s.rest) ELSE 0)
       <= MaxQueue
  /\ queue' = s.queue
  /\ calls' = s.calls
  /\ done' = d
  /\ IF s.await
       THEN /\ flushes' = Append(others, [fl EXCEPT !.rest = s.rest, !.res = s.res,
                                                    !.cur = s.cur, !.stage = "fetch"])
            /\ lastFlush' = NoFlush
       ELSE /\ flushes' = others
            /\ lastFlush' = [snap |-> fl.snap, res |-> s.res, clean |-> fl.clean,
                             after |-> s.queue]

\* Every suspended flush has seen activity that is not its own.
dirty(fs) == [g \in DOMAIN fs |-> [fs[g] EXCEPT !.clean = FALSE]]

\* ---------------------------------------------------- Direct Mode: actions

DirectInit ==
  /\ navOnLine \in BOOLEAN
  /\ isOnline = navOnLine
  /\ queue = <<>>
  /\ requests = {}
  /\ flushes = <<>>
  /\ sent = {}
  /\ shift \in 0..2
  /\ calls = <<>>
  /\ done = NoDone
  /\ sentOffline = {}
  /\ lastFlush = NoFlush
  /\ delivered = [i \in PayloadIds |-> 0]

\* A caller invokes ApiTransport.send(payload) with a fresh payload.
Send ==
  \E i \in PayloadIds \ sent, outcome \in BeaconOutcomes :
    LET p == payload(i)
        c == send(p, isOnline, outcome)
    IN /\ Len(queue) + held(flushes) < MaxQueue
       /\ sent' = sent \cup {i}
       /\ calls' = <<c>>
       /\ done' = NoDone
       /\ lastFlush' = NoFlush
       /\ queue' = IF c.push THEN Append(queue, p) ELSE queue
       /\ requests' = IF c.ret = "await"
                        THEN requests \cup {[p |-> p, stage |-> "fetch"]}
                        ELSE requests
       /\ sentOffline' = IF c.online THEN sentOffline ELSE sentOffline \cup {i}
       /\ flushes' = dirty(flushes)
       /\ UNCHANGED <<navOnLine, isOnline, shift>>

\* What the last step's settled send() did: its result and its own push.
settled(p, status, ok, owner) ==
  [p |-> p, status |-> status, ret |-> ok, owner |-> owner,
   before |-> queue, after |-> sendSettle(queue, p, ok)]

\* The awaited GET of a caller's send() settles.
settleSend(r, status, ok) ==
  /\ Len(sendSettle(queue, r.p, ok)) + held(flushes) <= MaxQueue
  /\ queue' = sendSettle(queue, r.p, ok)
  /\ requests' = requests \ {r}
  /\ calls' = <<>>
  /\ done' = settled(r.p, status, ok, "caller")
  /\ lastFlush' = NoFlush
  /\ flushes' = dirty(flushes)

\* The awaited GET of the i-th suspended flush settles: send() returns to
\* flushQueue, which requeues on failure and goes on with its loop.
settleFlush(i, status, ok) ==
  LET fl == flushes[i] IN
  \E acc \in [1..Len(fl.rest) -> BeaconOutcomes] :
    /\ flushRun(dirty(removeAt(flushes, i)),
                [fl EXCEPT !.clean = fl.clean /\ Len(flushes) = 1],
                [rest |-> fl.rest,
                 queue |-> flushRequeue(sendSettle(queue, fl.cur, ok), fl.cur, ok),
                 res |-> Append(fl.res, ok),
                 calls |-> <<>>, acc |-> acc, online |-> isOnline,
                 await |-> FALSE, cur |-> NoPayload],
                settled(fl.cur, status, ok, "flush"))
    /\ UNCHANGED requests

\* The fetch of a caller's GET settles: a response status, or a rejection.
Response ==
  \E r \in requests, status \in Statuses :
    /\ r.stage = "fetch"
    /\ IF sendViaGet(status) = "json"
         THEN /\ requests' = (requests \ {r}) \cup {[r EXCEPT !.stage = "json"]}
              /\ calls' = <<>>
              /\ done' = NoDone
              /\ lastFlush' = NoFlush
              /\ UNCHANGED <<queue, flushes>>
         ELSE settleSend(r, status, sendViaGet(status) = "ok")
    /\ UNCHANGED <<navOnLine, isOnline, sent, shift, sentOffline>>

\* response.json() of a caller's 500 response settles: send() throws.
JsonDone ==
  \E r \in requests :
    /\ r.stage = "json"
    /\ settleSend(r, 500, FALSE)
    /\ UNCHANGED <<navOnLine, isOnline, sent, shift, sentOffline>>

\* The fetch of a flush's GET settles.
FlushResponse ==
  \E i \in DOMAIN flushes, status \in Statuses :
    /\ flushes[i].stage = "fetch"
    /\ IF sendViaGet(status) = "json"
         THEN /\ flushes' = [flushes EXCEPT ![i].stage = "json"]
              /\ calls' = <<>>
              /\ done' = NoDone
              /\ lastFlush' = NoFlush
              /\ UNCHANGED <<queue, requests>>
         ELSE settleFlush(i, status, sendViaGet(status) = "ok")
    /\ UNCHANGED <<navOnLine, isOnline, sent, shift, sentOffline>>

\* response.json() of a flush's 500 response settles: send() throws.
FlushJsonDone ==
  \E i \in DOMAIN flushes :
    /\ flushes[i].stage = "json"
    /\ settleFlush(i, 500, FALSE)
    /\ UNCHANGED <<navOnLine, isOnline, sent, shift, sentOffline>>

\* A flushQueue() that returns at once whatever the queue holds.
flushSkipped(online) ==
  /\ calls' = <<>>
  /\ done' = NoDone
  /\ lastFlush' = NoFlush
  /\ UNCHANGED <<queue, requests, flushes>>

\* flushQueue() entered with the present queue and the given online flag.
flushQueue(online) ==
  IF Len(queue) = 0
    THEN /\ calls' = <<>>
         /\ done' = NoDone
         /\ lastFlush' = NoFlush
         /\ UNCHANGED <<queue, requests, flushes>>
    ELSE \E acc \in [1..Len(queue) -> BeaconOutcomes] :
           /\ flushRun(dirty(flushes),
                       [snap |-> queue, rest |-> queue, res |-> <<>>,
                        cur |-> NoPayload, stage |-> "fetch",
                        clean |-> (requests = {} /\ flushes = <<>>)],
                       [rest |-> queue, queue |-> <<>>, res |-> <<>>,
                        calls |-> <<>>, acc |-> acc, online |-> online,
                        await |-> FALSE, cur |-> NoPayload], NoDone)
           /\ UNCHANGED requests

\* A caller invokes flushQueue() itself.
FlushQueue ==
  /\ Len(queue) > 0
  /\ flushQueue(isOnline)
  /\ sentOffline' = {}
  /\ UNCHANGED <<navOnLine, isOnline, sent, shift>>

\* The platform's 'online' notification.
Online ==
  /\ ~navOnLine
  /\ navOnLine' = TRUE
  /\ isOnline' = TRUE
  /\ sentOffline' = {}
  /\ flushQueue(TRUE)
  /\ UNCHANGED <<sent, shift>>

\* An 'offline' handler that also drops what is queued.
OfflineDropsQueue ==
  /\ navOnLine
  /\ navOnLine' = FALSE
  /\ isOnline' = FALSE
  /\ calls' = <<>>
  /\ done' = NoDone
  /\ lastFlush' = NoFlush
  /\ queue' = <<>>
  /\ UNCHANGED <<requests, flushes, sent, shift, sentOffline>>

\* The platform's 'offline' notification.
Offline ==
  /\ navOnLine
  /\ navOnLine' = FALSE
  /\ isOnline' = FALSE
  /\ calls' = <<>>
  /\ done' = NoDone
  /\ lastFlush' = NoFlush
  /\ UNCHANGED <<queue, requests, flushes, sent, shift, sentOffline>>


\* =========================================================================
\* Background Mode: ApiWorkerTransport on the main thread and its worker.
\* Two versions of the class are in the repository: "v2" issues one GET per
\* event and counts queueSize; "v1" posts the batch in one request and sends
\* directly from the main thread when it has no worker.
\* =========================================================================

MaxEvents == 2        \* events handed to ApiWorkerTransport by its caller
MaxChannel == 1       \* messages in transit in one direction
BatchSize == 2        \* config.batchSize (10 in the code), scaled down

VARIABLES
  version,     \* which ApiWorkerTransport source runs: "v1" or "v2"
  isSupported, \* ApiWorkerTransport.isSupported: typeof Worker !== 'undefined'
  initThrew,   \* initWorker() ended in its catch block
  worker,      \* ApiWorkerTransport.worker: "null" or "alive"
  queueSize,   \* ApiWorkerTransport.queueSize
  toWorker,    \* messages posted to the worker, not yet handled
  toMain,      \* messages posted by the worker, not yet handled
  config,      \* worker: config is set (INIT was handled)
  eventQueue,  \* worker: eventQueue, the batch
  wIsOnline,   \* worker: isOnline
  flushTimer,  \* worker: the repeating flush timer is set
  wFlushes,    \* worker: flushQueue() calls suspended on a fetch, oldest first
  directSends, \* main thread: sendDirect() calls suspended on their fetch
  tracked,     \* events the caller has handed to send() so far
  wSend,       \* observation: the send() call of the last step
  wFetch,      \* observation: the worker fetches started in the last step
  wFail,       \* observation: the worker flush that failed in the last step
  wMsg         \* observation: what the worker handled in the last step

workerVars == <<version, isSupported, initThrew, worker, queueSize, toWorker,
                toMain, config, eventQueue, wIsOnline, flushTimer, wFlushes,
                directSends, tracked, wSend, wFetch, wFail, wMsg>>

NoSend == [event |-> 0]
NoFail == [batch |-> <<>>]

\* The number of requests a flush of the batch makes: one per event, or one
\* for the whole batch.
requestsOf(batch) == IF version = "v2" THEN Len(batch) ELSE 1

\* Whether the worker takes the settled fetch as a success.
workerFetchOk(status) ==
  IF version = "v2"
    THEN ~fetchRejects(status) /\ (status = 202 \/ status = 200)
    ELSE status \in 200..299

\* Variant: after a failure only the events not yet delivered go back.
requeueRemainder(q, batch, i) == q \o SubSeq(batch, i, Len(batch))

\* Variant: the catch block puts nothing back.
requeueDropped(q, batch, i) == q

\* The catch block of the worker's flushQueue: the whole batch goes back.
requeue(q, batch, i) == q \o batch

\* Variant: the message is posted whether or not there is a worker.
postUnguarded(msg) == Append(toWorker, msg)

\* postMessage to the worker, if there is one (this.worker?.postMessage).
post(msg) == IF worker = "alive" THEN Append(toWorker, msg) ELSE toWorker

\* Variant: a flush starts only on a batch that has reached the threshold.
workerFlushAtThreshold(q, on) ==
  IF Len(q) < BatchSize \/ ~on
    THEN [queue |-> q, started |-> <<>>, fetches |-> 0]
    ELSE [queue |-> <<>>, started |-> <<[batch |-> q, i |-> 1]>>, fetches |-> 1]

\* The worker's flushQueue() entered with eventQueue q and online flag on:
\* what it leaves in eventQueue, the flush it suspends, the fetches it starts.
workerFlush(q, on) ==
  IF Len(q) = 0 \/ ~on
    THEN [queue |-> q, started |-> <<>>, fetches |-> 0]
    ELSE [queue |-> <<>>, started |-> <<[batch |-> q, i |-> 1]>>, fetches |-> 1]

WorkerInit ==
  /\ version \in {"v1", "v2"}
  /\ navOnLine \in BOOLEAN
  /\ isSupported \in BOOLEAN
  /\ initThrew \in BOOLEAN
  /\ isSupported \/ ~initThrew
  /\ worker = IF isSupported /\ ~initThrew THEN "alive" ELSE "null"
  /\ queueSize = 0
  /\ toWorker = IF isSupported /\ ~initThrew THEN <<[type |-> "INIT", n |-> 0]>>
                ELSE <<>>
  /\ toMain = <<>>
  /\ config = FALSE
  /\ eventQueue = <<>>
  /\ wIsOnline = TRUE
  /\ flushTimer = FALSE
  /\ wFlushes = <<>>
  /\ directSends = {}
  /\ tracked = 0
  /\ wSend = NoSend
  /\ wFetch = 0
  /\ wFail = NoFail
  /\ wMsg = "none"

\* Nothing observable happened in the worker in this step.
quiet == wFetch' = 0 /\ wFail' = NoFail /\ wMsg' = "none"

\* ApiWorkerTransport.send(payload) called by the caller.
WSend ==
  /\ tracked < MaxEvents
  /\ worker = "alive" => Len(toWorker) < MaxChannel
  /\ tracked' = tracked + 1
  /\ IF worker = "null"
       THEN /\ directSends' = IF version = "v1" THEN directSends \cup {tracked + 1}
                              ELSE directSends
            /\ wSend' = [event |-> tracked + 1, hadWorker |-> FALSE,
                         ret |-> IF version = "v1" THEN "await" ELSE "false",
                         posted |-> FALSE, direct |-> version = "v1",
                         sizeBefore |-> queueSize, sizeAfter |-> queueSize]
            /\ UNCHANGED <<toWorker, queueSize>>
       ELSE /\ toWorker' = Append(toWorker, [type |-> "TRACK_EVENT", n |-> tracked + 1])
            /\ queueSize' = IF version = "v2" THEN queueSize + 1 ELSE queueSize
            /\ wSend' = [event |-> tracked + 1, hadWorker |-> TRUE, ret |-> "true",
                         posted |-> TRUE, direct |-> FALSE,
                         sizeBefore |-> queueSize, sizeAfter |-> queueSize']
            /\ UNCHANGED directSends
  /\ quiet
  /\ UNCHANGED <<version, isSupported, initThrew, worker, toMain, config,
                 eventQueue, wIsOnline, flushTimer, wFlushes, navOnLine>>

\* The fetch of a sendDirect() settles; send() returns response.ok or false.
WSendDirectDone ==
  \E e \in directSends :
    /\ directSends' = directSends \ {e}
    /\ wSend' = NoSend
    /\ quiet
    /\ UNCHANGED <<version, isSupported, initThrew, worker, queueSize, toWorker,
                   toMain, config, eventQueue, wIsOnline, flushTimer, wFlushes,
                   tracked, navOnLine>>

\* flush() (v2) or flushQueue() (v1) of ApiWorkerTransport: posts FLUSH_QUEUE.
WFlush ==
  /\ worker = "alive" => Len(toWorker) < MaxChannel
  /\ toWorker' = post([type |-> "FLUSH_QUEUE", n |-> 0])
  /\ wSend' = NoSend
  /\ quiet
  /\ UNCHANGED <<version, isSupported, initThrew, worker, queueSize, toMain,
                 config, eventQueue, wIsOnline, flushTimer, wFlushes,
                 directSends, tracked, navOnLine>>

\* getQueueSize(): the older class asks the worker, the newer only reads.
WGetQueueSize ==
  /\ version = "v1"
  /\ worker = "alive"
  /\ Len(toWorker) < MaxChannel
  /\ toWorker' = Append(toWorker, [type |-> "GET_QUEUE_SIZE", n |-> 0])
  /\ wSend' = NoSend
  /\ quiet
  /\ UNCHANGED <<version, isSupported, initThrew, worker, queueSize, toMain,
                 config, eventQueue, wIsOnline, flushTimer, wFlushes,
                 directSends, tracked, navOnLine>>

\* terminate(): the worker is killed with whatever it holds; without a worker
\* the call does nothing.
WTerminate ==
  /\ IF worker = "alive"
       THEN /\ worker' = "null"
            /\ toWorker' = <<>>
            /\ toMain' = <<>>
            /\ eventQueue' = <<>>
            /\ wFlushes' = <<>>
            /\ flushTimer' = FALSE
       ELSE UNCHANGED <<worker, toWorker, toMain, eventQueue, wFlushes, flushTimer>>
  /\ wSend' = NoSend
  /\ quiet
  /\ UNCHANGED <<version, isSupported, initThrew, queueSize, config, wIsOnline,
                 directSends, tracked, navOnLine>>

\* The platform's 'online' / 'offline' notification on the main thread.
WPlatform ==
  /\ worker = "alive" => Len(toWorker) < MaxChannel
  /\ navOnLine' = ~navOnLine
  /\ toWorker' = post([type |-> IF navOnLine THEN "OFFLINE" ELSE "ONLINE", n |-> 0])
  /\ wSend' = NoSend
  /\ quiet
  /\ UNCHANGED <<version, isSupported, initThrew, worker, queueSize, toMain,
                 config, eventQueue, wIsOnline, flushTimer, wFlushes,
                 directSends, tracked>>

\* Variant: a FLUSH_ERROR report takes its count off the counter too.
handleWorkerMessageOnError(m) ==
  CASE m.type \in {"FLUSH_SUCCESS", "FLUSH_ERROR"} /\ version = "v2" ->
         IF queueSize - m.n > 0 THEN queueSize - m.n ELSE 0
    [] m.type = "QUEUE_SIZE" -> m.n
    [] OTHER -> queueSize

\* Variant: a FLUSH_SUCCESS report takes one off the counter, whatever its count.
handleWorkerMessageByOne(m) ==
  CASE m.type = "FLUSH_SUCCESS" /\ version = "v2" ->
         IF queueSize - 1 > 0 THEN queueSize - 1 ELSE 0
    [] m.type = "QUEUE_SIZE" -> m.n
    [] OTHER -> queueSize

\* queueSize after handleWorkerMessage(m): Math.max(0, queueSize - count) on
\* FLUSH_SUCCESS in the newer class, the reported size on QUEUE_SIZE.
handleWorkerMessage(m) ==
  CASE m.type = "FLUSH_SUCCESS" /\ version = "v2" ->
         IF queueSize - m.n > 0 THEN queueSize - m.n ELSE 0
    [] m.type = "QUEUE_SIZE" -> m.n
    [] OTHER -> queueSize

\* handleWorkerMessage(data) for the oldest message of the worker.
WHandleWorkerMessage ==
  /\ toMain # <<>>
  /\ toMain' = Tail(toMain)
  /\ queueSize' = handleWorkerMessage(Head(toMain))
  /\ wSend' = NoSend
  /\ quiet
  /\ UNCHANGED <<version, isSupported, initThrew, worker, toWorker, config,
                 eventQueue, wIsOnline, flushTimer, wFlushes, directSends,
                 tracked, navOnLine>>

\* Variant: the batch must grow past the threshold before it is flushed.
exceedsThreshold(q) == Len(q) > BatchSize

\* The test of the TRACK_EVENT handler after its push:
\* eventQueue.length >= (config.batchSize || 10).
reachesThreshold(q) == Len(q) >= BatchSize

\* The worker's message listener for the oldest message posted to it.
WorkerMessage ==
  /\ toWorker # <<>>
  /\ LET m == Head(toWorker)
         q == IF m.type = "TRACK_EVENT" THEN Append(eventQueue, m.n) ELSE eventQueue
         on == IF m.type = "ONLINE" THEN TRUE
               ELSE IF m.type = "OFFLINE" THEN FALSE ELSE wIsOnline
         flushing == \/ m.type \in {"FLUSH_QUEUE", "ONLINE"}
                     \/ m.type = "TRACK_EVENT" /\ reachesThreshold(q)
         f == IF flushing THEN workerFlush(q, on)
              ELSE [queue |-> q, started |-> <<>>, fetches |-> 0]
     IN /\ m.type \in {"INIT", "GET_QUEUE_SIZE"} => Len(toMain) < MaxChannel
        /\ toWorker' = Tail(toWorker)
        /\ config' = (config \/ m.type = "INIT")
        /\ flushTimer' = (flushTimer \/ m.type = "INIT")
        /\ wIsOnline' = on
        /\ eventQueue' = f.queue
        /\ wFlushes' = wFlushes \o f.started
        /\ wFetch' = f.fetches
        /\ toMain' = CASE m.type = "INIT" ->
                            Append(toMain, [type |-> "INIT_SUCCESS", n |-> 0])
                       [] m.type = "GET_QUEUE_SIZE" ->
                            Append(toMain, [type |-> "QUEUE_SIZE", n |-> Len(eventQueue)])
                       [] OTHER -> toMain
  /\ wFail' = NoFail
  /\ wMsg' = Head(toWorker).type
  /\ wSend' = NoSend
  /\ UNCHANGED <<version, isSupported, initThrew, worker, queueSize,
                 directSends, tracked, navOnLine>>

\* The worker's interval timer fires.
WorkerTimer ==
  /\ worker = "alive"
  /\ flushTimer
  /\ Len(eventQueue) > 0
  /\ LET f == workerFlush(eventQueue, wIsOnline)
     IN /\ eventQueue' = f.queue
        /\ wFlushes' = wFlushes \o f.started
        /\ wFetch' = f.fetches
  /\ wFail' = NoFail
  /\ wMsg' = "timer"
  /\ wSend' = NoSend
  /\ UNCHANGED <<version, isSupported, initThrew, worker, queueSize, toWorker,
                 toMain, config, wIsOnline, flushTimer, directSends, tracked,
                 navOnLine>>

\* The fetch awaited by the k-th suspended flush of the worker settles.
WorkerResponse ==
  \E k \in DOMAIN wFlushes, status \in Statuses :
    LET fl == wFlushes[k]
        ok == workerFetchOk(status)
        last == fl.i = requestsOf(fl.batch)
    IN /\ (~ok \/ last) => Len(toMain) < MaxChannel
       /\ IF ok /\ ~last
            THEN /\ wFlushes' = [wFlushes EXCEPT ![k].i = fl.i + 1]
                 /\ wFetch' = 1
                 /\ wFail' = NoFail
                 /\ UNCHANGED <<eventQueue, toMain>>
            ELSE /\ wFlushes' = removeAt(wFlushes, k)
                 /\ wFetch' = 0
                 /\ eventQueue' = IF ok THEN eventQueue
                                  ELSE requeue(eventQueue, fl.batch, fl.i)
                 /\ toMain' = Append(toMain,
                                [type |-> IF ok THEN "FLUSH_SUCCESS" ELSE "FLUSH_ERROR",
                                 n |-> Len(fl.batch)])
                 /\ wFail' = IF ok THEN NoFail
                             ELSE [batch |-> fl.batch, i |-> fl.i,
                                   before |-> eventQueue, after |-> eventQueue',
                                   posted |-> toMain'[Len(toMain')]]
       /\ wSend' = NoSend
       /\ wMsg' = "none"
       /\ UNCHANGED <<version, isSupported, initThrew, worker, queueSize, toWorker,
                      config, wIsOnline, flushTimer, directSends, tracked, navOnLine>>


\* =========================================================================
\* The SDK around the transport: CarbonCutSDK.init, Session, EventTracker,
\* PingTracker and the unload listener.
\* =========================================================================

MaxSends == 2         \* EventTracker.send() calls the page and its timers make
MaxTicks == 2         \* clock ticks that pass
MaxInits == 2         \* init() calls that reach the configuration fetch
MaxDomainLen == 2     \* longest domain string a configuration answer carries
MaxSessionCalls == 6  \* start() and end() calls made on a Session on its own
MaxPathLen == 3       \* longest pathname after its first slash, in parts
DedupWindow == 2000   \* delay of the timer that forgets an event key
TickMs == DedupWindow \div 2

VARIABLES
  env,           \* the page: config.useWorker, typeof Worker, new Worker throws
  inits,         \* init() calls suspended on fetchConversionRules()
  locating,      \* init() calls suspended on the location prompt
  autoInitAttempted, \* sdk.autoInitAttempted
  isInitialized, \* state.isInitialized
  trackerToken,  \* config.trackerToken: "none" or "T"
  created,       \* Sessions started (with their transport and listeners)
                 \* since construction or the last destroy()
  issued,        \* identifiers generateUUID() has returned so far
  lastInit,      \* observation: the init() step of the last step
  transportKind, \* class of sdk.transport: "none", "direct" or "worker"
  sessionId,     \* Session.sessionId, 0 for null
  pingTimer,     \* PingTracker.timer is set
  now,           \* the clock, in ms
  sentEvents,    \* EventTracker.sentEvents, the keys it holds
  timers,        \* pending setTimeout callbacks that delete a key
  geoWaits,      \* send() calls suspended on getGeolocationData()
  started,       \* send() calls made so far
  handoffs,      \* the transport.send(payload) calls made: event key and time
  lastSend,      \* observation: what the send() of the last step came to
  lastUnload,    \* observation: the unload listener of the last step
  clickRule,     \* the configuration the server holds has a click rule
  listeners,     \* the EventTrackers, by the number of Sessions issued when
                 \* they were current, that have installed a click listener
  lastClick,     \* observation: the last click on an element the rule selects
  sessionLog,    \* the start() and end() calls made on a Session on its own
  answer,        \* the answer to a configuration fetch on its own
  accepted,      \* what fetchConversionRules() returned for it: "pending",
                 \* "true" or "false"
  enableGeolocation, \* config.enableGeolocation or config.requestLocation
  geoSupported,  \* the page has navigator.geolocation
  isRequesting,  \* GeolocationManager.isRequesting
  cachedLocation, \* getCachedLocation() finds a location
  lastGeo,       \* observation: the payload built in the last step carried
                 \* a geolocation field ("present"), did not ("absent"), or
                 \* there was none ("none")
  location,      \* window.location on its own: pathname and search
  matched        \* what checkUrlConversions() did there: "pending", or
                 \* "true" when it called send("conversion"), else "false"

\* An EventTracker and its URL conversion rules, and a PingTracker with the
\* visibility listener, each on its own.
VARIABLES
  conversionRules, \* config.conversionRules: a sequence of rules
  convActive,      \* session.isActive()
  convKeys,        \* EventTracker.sentEvents: the keys registered
  convWaits,       \* send() calls suspended on getGeolocationData()
  convSent,        \* send() calls the page has made
  lastEval,        \* observation: the send() that reached its duplicate check
                   \* in the last step and the conversion sends it made
  docHidden,       \* document.hidden
  timer,           \* PingTracker.timer: 0 for null, or the interval's id
  intervals,       \* the repeating timers of the platform that are set
  made,            \* setInterval() calls made so far
  timeSpent,       \* state.timeSpent, in ping intervals
  lastPing,        \* observation: the interval callback of the last step
  pingEnded        \* destroy() or the unload listener has stopped the pings

\* What only init(), autoInit() and destroy() change.
initVars == <<inits, locating, autoInitAttempted, isInitialized,
              trackerToken, created, issued, transportKind>>

rulesVars == <<clickRule, listeners, lastClick>>

sdkVars == <<env, initVars, sessionId, pingTimer, now, sentEvents, timers,
             geoWaits, started, handoffs, lastSend, lastUnload, lastInit,
             rulesVars>>

\* What only the specifications of single parts use.
fetchUnit == <<answer, accepted>>
geoUnit == <<enableGeolocation, geoSupported, isRequesting, cachedLocation, lastGeo>>
urlUnit == <<location, matched>>
convUnit == <<conversionRules, convActive, convKeys, convWaits, convSent, lastEval>>
pingUnit == <<docHidden, timer, intervals, made, timeSpent, lastPing, pingEnded>>
unitVars == <<sessionLog, fetchUnit, geoUnit, urlUnit, convUnit, pingUnit>>

NoEval == [event |-> "none"]
NoPing == [fired |-> FALSE]

NoTs == -1
NoLast == [result |-> "none"]
NoUnload == [ran |-> FALSE]
NoInit == [phase |-> "none", result |-> "none"]
NoClick == [ran |-> FALSE]

\* The data callers pass: a custom event's data may carry its own timestamp,
\* which the payload takes over.
CustomData == {[body |-> "custom", ts |-> NoTs], [body |-> "custom", ts |-> 0]}
plain(body) == [body |-> body, ts |-> NoTs]

eventTypeMapping(e) ==
  CASE e = "session_start" -> "session_start"
    [] e = "page_view" -> "page_view"
    [] e = "ping" -> "page_view"
    [] e = "custom_event" -> "click"
    [] e = "session_end" -> "conversion"
    [] e = "button_click" -> "click"
    [] e = "form_submit" -> "conversion"
    [] e = "conversion" -> "conversion"
    [] OTHER -> "click"

\* What the platform may do with the beacon of event e: it is asked only when
\* the transport tries a beacon for the mapped event type.
Beacons(e) ==
  IF shouldUseSendBeacon(eventTypeMapping(e)) THEN BeaconOutcomes ELSE {"unsupported"}

\* The events send() awaits getGeolocationData() for.
geolocated(e) == e = "session_start" \/ e = "conversion"

\* payload.timestamp: the clock at the time the payload is built, unless the
\* data brings a timestamp of its own.
timestamp(data) == IF data.ts # NoTs THEN data.ts ELSE now

eventKey(e, data) == <<e, timestamp(data), data>>

\* Variant: the key is forgotten at once.
expiryAtOnce(at) == at

\* Variant: the key is forgotten after half the window.
expiryHalf(at) == at + TickMs

\* When the timer set at time at may delete the key.
expiry(at) == at + DedupWindow

\* Where a payload given to sdk.transport.send goes.
via ==
  IF transportKind = "direct" THEN "direct"
  ELSE IF worker = "alive" THEN "worker"
  ELSE IF version = "v1" THEN "sendDirect" ELSE "dropped"

noHandOff == UNCHANGED <<queue, requests, calls, toWorker, queueSize, directSends>>

\* this.transport.send(payload) for the transport the SDK holds.
handOff(p, outcome) ==
  IF transportKind = "direct"
    THEN LET c == send(p, isOnline, outcome)
         IN /\ calls' = <<c>>
            /\ queue' = IF c.push THEN Append(queue, p) ELSE queue
            /\ requests' = IF c.ret = "await"
                             THEN requests \cup {[p |-> p, stage |-> "fetch"]}
                             ELSE requests
            /\ UNCHANGED <<toWorker, queueSize, directSends>>
    ELSE /\ toWorker' = post([type |-> "TRACK_EVENT", n |-> p.id])
         /\ queueSize' = IF worker = "alive" /\ version = "v2" THEN queueSize + 1
                         ELSE queueSize
         /\ directSends' = IF worker = "null" /\ version = "v1"
                             THEN directSends \cup {p.id} ELSE directSends
         /\ UNCHANGED <<queue, requests, calls>>

\* EventTracker.send from the point where the payload is built: the duplicate
\* check, the key and its timer, the hand-off, the URL conversion rules.
\* n counts the send() calls made, waits are the suspended ones.
build(e, data, outcome, urlMatches, n, waits) ==
  LET key == eventKey(e, data)
      p == [id |-> n, event |-> eventTypeMapping(e)]
      repeat == \E h \in handoffs : h.key = key /\ now - h.at < DedupWindow
      nested == /\ e \in {"page_view", "session_start"}
                /\ urlMatches /\ sessionId # 0 /\ n < MaxSends
  IN IF key \in sentEvents
       THEN /\ lastSend' = [result |-> "duplicate", key |-> key]
            /\ geoWaits' = waits
            /\ started' = n
            /\ UNCHANGED <<sentEvents, timers, handoffs>>
            /\ noHandOff
       ELSE /\ sentEvents' = sentEvents \cup {key}
            /\ timers' = timers \cup {[key |-> key, due |-> expiry(now)]}
            /\ handoffs' = handoffs \cup {[key |-> key, at |-> now]}
            /\ handOff(p, outcome)
            /\ lastSend' = [result |-> "sent", key |-> key, event |-> p.event,
                             via |-> via, repeat |-> repeat,
                             session |-> sessionId, token |-> trackerToken]
            /\ started' = IF nested THEN n + 1 ELSE n
            /\ geoWaits' = IF nested
                             THEN waits \cup {[id |-> n + 1, event |-> "conversion",
                                               data |-> plain("url")]}
                             ELSE waits

\* What a send() that does nothing must leave as it was: the keys, their
\* timers, the suspended send() calls, and all the transport holds.
sendState == <<sentEvents, timers, geoWaits, handoffs, queue, requests, toWorker,
               queueSize, directSends>>

\* Variant: the gate lets every call pass.
isActiveAlways(sid) == TRUE

\* Session.isActive()
isActive(sid) == sid # 0

\* EventTracker.send(event, data) up to its first suspension.
eventTrackerSend(e, data, outcome, urlMatches) ==
  IF ~isActive(sessionId)
    THEN /\ lastSend' = [result |-> "no_session", before |-> sendState]
         /\ started' = started + 1
         /\ UNCHANGED <<sentEvents, timers, geoWaits, handoffs>>
         /\ noHandOff
    ELSE IF geolocated(e)
      THEN /\ geoWaits' = geoWaits \cup {[id |-> started + 1, event |-> e, data |-> data]}
           /\ lastSend' = [result |-> "waiting", session |-> sessionId]
           /\ started' = started + 1
           /\ UNCHANGED <<sentEvents, timers, handoffs>>
           /\ noHandOff
      ELSE build(e, data, outcome, urlMatches, started + 1, geoWaits)

\* What only the construction in init() and destroy() change.
transportKept == UNCHANGED <<isOnline, isSupported, initThrew, worker, listeners>>

\* What no step of the SDK touches.
sdkRest ==
  UNCHANGED <<navOnLine, flushes, sent, shift, done, sentOffline, lastFlush, delivered,
              version, toMain, config, eventQueue, wIsOnline, flushTimer,
              wFlushes, tracked, wSend, wFetch, wFail, wMsg, env, unitVars,
              clickRule, lastClick>>

\* The text of a domain: "a" stands for the page's origin, "A" for the same
\* in capitals, "b" for any other text.
Chars == {"a", "A", "b", "/", "*"}
Origin == <<"a">>

RECURSIVE strings(_)
strings(n) ==
  IF n = 0 THEN {<<>>}
  ELSE strings(n - 1) \cup {Append(d, c) : d \in strings(n - 1), c \in Chars}

Domains == strings(MaxDomainLen)

toLowerCase(d) == [i \in DOMAIN d |-> IF d[i] = "A" THEN "a" ELSE d[i]]

RECURSIVE stripSlashes(_)
stripSlashes(d) ==
  IF d # <<>> /\ d[Len(d)] = "/" THEN stripSlashes(SubSeq(d, 1, Len(d) - 1)) ELSE d

normalizeDomain(d) == IF d = <<>> THEN <<>> ELSE stripSlashes(toLowerCase(d))

\* The domain test of fetchConversionRules.
domainAccepted(d) ==
  LET configuredDomain == normalizeDomain(d)
      currentDomain == normalizeDomain(Origin)
  IN ~(configuredDomain # <<>> /\ configuredDomain # <<"*">>
       /\ configuredDomain # currentDomain)

\* The answers the configuration fetch can end with: response.ok, and
\* data.success and data.domain of its body; <<>> is a domain that is missing
\* or empty.
Answers == [ok : BOOLEAN, success : BOOLEAN, domain : Domains]

\* The answers init() is followed with: the request fails or is answered with
\* an error status, the body says success: false, or it says success: true
\* with the page's domain, another domain or none.
Responses ==
  {r \in Answers :
     /\ r.domain \in {<<>>, <<"a">>, <<"b">>}
     /\ ~(r.ok /\ r.success) => ~r.success /\ r.domain = <<>>}

\* What fetchConversionRules() returns.
fetchAccepted(resp) == resp.ok /\ resp.success /\ domainAccepted(resp.domain)

\* Variant: every configuration passes.
validateAlways(token, hasUrl) == TRUE

\* Config.init(options): validate().
validate(token, hasUrl) == token # "none" /\ hasUrl

\* Variant: a worker transport whenever the page has Worker.
selectIgnoringFlag(useWorker, hasWorker) == IF hasWorker THEN "worker" ELSE "direct"

\* The transport init() builds.
selectTransport(useWorker, hasWorker) ==
  IF useWorker /\ hasWorker THEN "worker" ELSE "direct"

\* generateUUID(): a value it has not returned before. That two random
\* identifiers coincide is left out.
generateUUID == issued + 1

\* Variant: end() leaves the identifier in place.
endKeeps == sessionId

\* Session.end(): the identifier it installs, 0 for null.
end == 0

\* Session.getId()
getId == sessionId

\* What a failing init() must leave as it was.
snapshot == <<sessionId, transportKind, isInitialized, created, issued, started,
              handoffs>>

fetchIdle ==
  /\ answer = [ok |-> FALSE, success |-> FALSE, domain |-> <<>>]
  /\ accepted = "pending"

geoIdle ==
  /\ enableGeolocation = FALSE /\ geoSupported = FALSE
  /\ isRequesting = FALSE /\ cachedLocation = FALSE /\ lastGeo = "none"

urlIdle ==
  /\ location = [pathname |-> <<"/">>, search |-> <<>>]
  /\ matched = "pending"

convIdle ==
  /\ conversionRules = <<>> /\ convActive = FALSE /\ convKeys = {}
  /\ convWaits = {} /\ convSent = 0 /\ lastEval = NoEval

pingIdle ==
  /\ docHidden = FALSE /\ timer = 0 /\ intervals = {} /\ made = 0
  /\ timeSpent = 0 /\ lastPing = NoPing /\ pingEnded = FALSE

unitIdle ==
  sessionLog = <<>> /\ fetchIdle /\ geoIdle /\ urlIdle /\ convIdle /\ pingIdle

rulesIdle == clickRule = FALSE /\ listeners = {} /\ lastClick = NoClick

\* The SDK object after its construction.
SdkStart ==
  /\ inits = 0
  /\ locating = 0
  /\ autoInitAttempted = FALSE
  /\ isInitialized = FALSE
  /\ trackerToken = "none"
  /\ created = 0
  /\ issued = 0
  /\ transportKind = "none"
  /\ sessionId = 0
  /\ pingTimer = FALSE
  /\ now = 0
  /\ sentEvents = {}
  /\ timers = {}
  /\ geoWaits = {}
  /\ started = 0
  /\ handoffs = {}
  /\ lastSend = NoLast
  /\ lastUnload = NoUnload
  /\ lastInit = NoInit
  /\ listeners = {}
  /\ lastClick = NoClick
  /\ unitIdle

\* The SDK on a page of any kind, with a server that holds no click rule.
SdkInit ==
  /\ navOnLine \in BOOLEAN
  /\ version \in {"v1", "v2"}
  /\ env \in [useWorker : BOOLEAN, hasWorker : BOOLEAN, throws : BOOLEAN]
  /\ env.throws => env.useWorker /\ env.hasWorker
  /\ clickRule = FALSE
  /\ SdkStart

\* init(options) up to the point where it awaits the configuration fetch.
init(token, hasUrl, dnt) ==
  LET proceeds == ~isInitialized /\ validate(token, hasUrl) /\ ~dnt /\ token # "none"
  IN /\ trackerToken' = IF isInitialized THEN trackerToken ELSE token
     /\ inits' = IF proceeds THEN inits + 1 ELSE inits
     /\ lastInit' = [phase |-> "call", result |-> IF proceeds THEN "await" ELSE "false",
                     complete |-> token # "none" /\ hasUrl, before |-> snapshot]
     /\ lastSend' = NoLast
     /\ lastUnload' = NoUnload
     /\ UNCHANGED <<locating, isInitialized, created, issued, transportKind,
                    sessionId, pingTimer, now, sentEvents, timers, geoWaits,
                    started, handoffs>>
     /\ noHandOff /\ transportKept /\ sdkRest

\* init(options) called by the page.
InitCall ==
  \E token \in {"none", "T"}, hasUrl \in BOOLEAN, dnt \in BOOLEAN :
    /\ inits + issued < MaxInits
    /\ init(token, hasUrl, dnt)
    /\ UNCHANGED autoInitAttempted

\* autoInit(): init() with the configuration of the script tag. isInitializing
\* is set and cleared in the same run, so its test never holds.
AutoInit ==
  \E found \in BOOLEAN, dnt \in BOOLEAN :
    /\ inits + issued < MaxInits
    /\ ~autoInitAttempted
    /\ autoInitAttempted' = TRUE
    /\ IF found
         THEN init("T", TRUE, dnt)
         ELSE /\ lastInit' = NoInit
              /\ lastSend' = NoLast
              /\ lastUnload' = NoUnload
              /\ UNCHANGED <<inits, locating, isInitialized, trackerToken,
                             created, issued, transportKind, sessionId, pingTimer,
                             now, sentEvents, timers, geoWaits, started, handoffs>>
              /\ noHandOff /\ transportKept /\ sdkRest

\* init(options) after the configuration fetch. When the answer is accepted
\* the Session, the transport, the trackers and the listeners are built anew
\* and the session starts; what the replaced objects still do is not followed.
\* session_start is sent at once, or after the wait for the user's location
\* when promptForLocationOnLoad is set.
InitDone ==
  \E resp \in Responses, prompt \in BOOLEAN :
    /\ inits > 0
    /\ inits' = inits - 1
    /\ lastUnload' = NoUnload
    /\ lastSend' = NoLast
    /\ lastInit' = [phase |-> "done",
                    result |-> IF fetchAccepted(resp) THEN "created" ELSE "false",
                    resp |-> resp,
                    before |-> IF fetchAccepted(resp) THEN <<>> ELSE snapshot]
    /\ IF ~fetchAccepted(resp)
         THEN /\ UNCHANGED <<locating, isInitialized, created, issued, transportKind,
                             sessionId, pingTimer, sentEvents, timers, geoWaits,
                             started, handoffs, toWorker>>
              /\ UNCHANGED <<queue, requests, calls, queueSize, directSends>>
              /\ transportKept
         ELSE /\ listeners' = IF clickRule /\ issued > 0
                                THEN listeners \cup {issued} ELSE listeners
              /\ transportKind' = selectTransport(env.useWorker, env.hasWorker)
              /\ isOnline' = IF transportKind' = "direct" THEN navOnLine ELSE isOnline
              /\ isSupported' = (transportKind' = "worker" /\ env.hasWorker)
              /\ initThrew' = (transportKind' = "worker" /\ env.throws)
              /\ worker' = IF transportKind' = "worker" /\ ~env.throws THEN "alive"
                           ELSE "null"
              /\ toWorker' = IF worker' = "alive" THEN <<[type |-> "INIT", n |-> 0]>>
                             ELSE <<>>
              /\ queue' = <<>> /\ requests' = {} /\ calls' = <<>>
              /\ queueSize' = 0 /\ directSends' = {}
              /\ sentEvents' = {} /\ timers' = {} /\ handoffs' = {}
              /\ issued' = issued + 1
              /\ sessionId' = generateUUID
              /\ created' = created + 1
              /\ pingTimer' = TRUE
              /\ isInitialized' = TRUE
              /\ locating' = IF prompt THEN locating + 1 ELSE locating
              /\ geoWaits' = IF prompt \/ started >= MaxSends THEN {}
                             ELSE {[id |-> started + 1, event |-> "session_start",
                                    data |-> plain("metadata")]}
              /\ started' = IF prompt \/ started >= MaxSends THEN started
                            ELSE started + 1
    /\ UNCHANGED <<autoInitAttempted, trackerToken, now>>
    /\ sdkRest

\* init(options) after its wait for the user's location: session_start is sent.
InitLocated ==
  \E outcome \in Beacons("session_start") :
    /\ locating > 0
    /\ started < MaxSends
    /\ locating' = locating - 1
    /\ eventTrackerSend("session_start", plain("metadata"), outcome, FALSE)
    /\ lastUnload' = NoUnload
    /\ lastInit' = NoInit
    /\ UNCHANGED <<inits, autoInitAttempted, isInitialized, trackerToken,
                   created, issued, transportKind, sessionId, pingTimer, now>>
    /\ transportKept /\ sdkRest

\* destroy(): the ping timer stops, the worker transport is terminated, the
\* session ends, the State is reset.
Destroy ==
  /\ transportKind # "none"
  /\ pingTimer' = FALSE
  /\ worker' = "null"
  /\ toWorker' = IF transportKind = "worker" THEN <<>> ELSE toWorker
  /\ sessionId' = end
  /\ isInitialized' = FALSE
  /\ created' = 0
  /\ lastSend' = NoLast
  /\ lastUnload' = NoUnload
  /\ lastInit' = NoInit
  /\ UNCHANGED <<inits, locating, autoInitAttempted, trackerToken,
                 issued, transportKind, now, sentEvents, timers, geoWaits,
                 started, handoffs>>
  /\ UNCHANGED <<queue, requests, calls, queueSize, directSends, isOnline,
                 isSupported, initThrew, listeners>>
  /\ sdkRest

\* trackEvent, trackPageView and ping when state.isInitialized is not set:
\* they return.
notInitialized ==
  /\ lastSend' = [result |-> "not_initialized", before |-> sendState]
  /\ UNCHANGED <<sentEvents, timers, geoWaits, started, handoffs>>
  /\ noHandOff

\* trackEvent(eventName, data)
TrackEvent ==
  \E data \in IF isInitialized THEN CustomData ELSE {plain("custom")},
     outcome \in Beacons("custom_event") :
    /\ IF ~isInitialized
         THEN notInitialized
         ELSE /\ started < MaxSends
              /\ eventTrackerSend("custom_event", data, outcome, FALSE)
    /\ lastUnload' = NoUnload
    /\ lastInit' = NoInit
    /\ UNCHANGED <<initVars, sessionId, pingTimer, now>>
    /\ transportKept /\ sdkRest

\* trackPageView(pagePath)
TrackPageView ==
  \E outcome \in Beacons("page_view"), urlMatches \in BOOLEAN :
    /\ IF ~isInitialized
         THEN notInitialized
         ELSE /\ started < MaxSends
              /\ eventTrackerSend("page_view", plain("page"), outcome, urlMatches)
    /\ lastUnload' = NoUnload
    /\ lastInit' = NoInit
    /\ UNCHANGED <<initVars, sessionId, pingTimer, now>>
    /\ transportKept /\ sdkRest

\* PingTracker.ping(), run by the interval callback while the timer is set,
\* or by ping() of the SDK through PingTracker.trigger().
Ping ==
  \E caller \in {"timer", "page"}, outcome \in Beacons("ping") :
    /\ caller = "timer" => pingTimer
    /\ IF caller = "page" /\ ~isInitialized
         THEN notInitialized
         ELSE /\ started < MaxSends
              /\ eventTrackerSend("ping", plain("ping"), outcome, FALSE)
    /\ lastUnload' = NoUnload
    /\ lastInit' = NoInit
    /\ UNCHANGED <<initVars, sessionId, pingTimer, now>>
    /\ transportKept /\ sdkRest

\* getGeolocationData() settles and the suspended send() goes on.
GeoDone ==
  \E w \in geoWaits, urlMatches \in BOOLEAN :
   \E outcome \in Beacons(w.event) :
    /\ build(w.event, w.data, outcome, urlMatches, started, geoWaits \ {w})
    /\ lastUnload' = NoUnload
    /\ lastInit' = NoInit
    /\ UNCHANGED <<initVars, sessionId, pingTimer, now>>
    /\ transportKept /\ sdkRest

\* The beforeunload listener: the ping timer stops, session_end is sent, the
\* session ends.
Unload ==
  \E outcome \in BeaconOutcomes :
    /\ transportKind # "none"
    /\ started < MaxSends
    /\ pingTimer' = FALSE
    /\ eventTrackerSend("session_end", plain("unload"), outcome, FALSE)
    /\ sessionId' = end
    /\ lastUnload' = [ran |-> TRUE, active |-> sessionId # 0, outcome |-> outcome,
                      direct |-> transportKind = "direct", online |-> isOnline]
    /\ lastInit' = NoInit
    /\ UNCHANGED <<initVars, now>>
    /\ transportKept /\ sdkRest

\* A click on an element that the click rule selects. Each listener that
\* trackClickConversion installed runs send("conversion", ...) on its own
\* EventTracker; what a tracker that init() has replaced does with it is not
\* followed.
Click ==
  \E outcome \in Beacons("conversion") :
    LET sends == issued \in listeners /\ isActive(sessionId)
    IN /\ clickRule
       /\ lastClick' = [ran |-> TRUE, active |-> isActive(sessionId),
                         handlers |-> listeners, sent |-> sends]
       /\ IF sends
            THEN /\ started < MaxSends
                 /\ eventTrackerSend("conversion", plain("click"), outcome, FALSE)
            ELSE /\ lastSend' = NoLast
                 /\ UNCHANGED <<sentEvents, timers, geoWaits, started, handoffs>>
                 /\ noHandOff
       /\ lastUnload' = NoUnload
       /\ lastInit' = NoInit
       /\ UNCHANGED <<initVars, sessionId, pingTimer, now, clickRule>>
       /\ transportKept
       /\ UNCHANGED <<navOnLine, flushes, sent, shift, done, sentOffline, lastFlush, delivered,
                      version, toMain, config, eventQueue, wIsOnline, flushTimer,
                      wFlushes, tracked, wSend, wFetch, wFail, wMsg, env, unitVars>>

\* Time passes.
Tick ==
  /\ now < MaxTicks * TickMs
  /\ now' = now + TickMs
  /\ lastSend' = NoLast
  /\ lastUnload' = NoUnload
  /\ lastInit' = NoInit
  /\ UNCHANGED <<initVars, sessionId, pingTimer,
                 sentEvents, timers, geoWaits, started, handoffs>>
  /\ noHandOff /\ transportKept /\ sdkRest

\* Time passes while a key waits for its timer.
Elapse ==
  /\ \E t \in timers : now < t.due
  /\ now' = now + TickMs
  /\ lastSend' = NoLast
  /\ lastUnload' = NoUnload
  /\ lastInit' = NoInit
  /\ UNCHANGED <<initVars, sessionId, pingTimer,
                 sentEvents, timers, geoWaits, started, handoffs>>
  /\ noHandOff /\ transportKept /\ sdkRest

\* A timer that is due runs: the key is deleted.
TimerFire ==
  \E t \in timers :
    /\ now >= t.due
    /\ timers' = timers \ {t}
    /\ sentEvents' = sentEvents \ {t.key}
    /\ lastSend' = NoLast
    /\ lastUnload' = NoUnload
    /\ lastInit' = NoInit
    /\ UNCHANGED <<initVars, sessionId, pingTimer,
                   now, geoWaits, started, handoffs>>
    /\ noHandOff /\ transportKept /\ sdkRest

\* What the steps of a Session on its own leave alone.
sessionOnly ==
  UNCHANGED <<directVars, workerVars, env, inits, locating,
              autoInitAttempted, isInitialized, trackerToken, created,
              transportKind, pingTimer, now, sentEvents, timers, geoWaits,
              started, handoffs, lastSend, lastUnload, lastInit, rulesVars,
              fetchUnit, geoUnit, urlUnit, convUnit, pingUnit>>

\* session.start()
SessionStart ==
  /\ Len(sessionLog) < MaxSessionCalls
  /\ issued' = issued + 1
  /\ sessionId' = generateUUID
  /\ sessionLog' = Append(sessionLog, [call |-> "start", ret |-> sessionId'])
  /\ sessionOnly

\* session.end()
SessionEnd ==
  /\ Len(sessionLog) < MaxSessionCalls
  /\ sessionId' = end
  /\ sessionLog' = Append(sessionLog, [call |-> "end", ret |-> 0])
  /\ UNCHANGED issued
  /\ sessionOnly

\* fetchConversionRules() once the answer to its request is there.
FetchConversionRules ==
  /\ accepted = "pending"
  /\ accepted' = IF trackerToken # "none" /\ fetchAccepted(answer)
                   THEN "true" ELSE "false"
  /\ UNCHANGED <<directVars, workerVars, sdkVars, sessionLog, answer,
                 geoUnit, urlUnit, convUnit, pingUnit>>

\* The text of a location, in parts: a slash, the name thank-you, or another
\* name; a query string is <<"?", "x=1">> or empty.
PathParts == {"/", "thank-you", "x"}

RECURSIVE paths(_)
paths(n) ==
  IF n = 0 THEN {<<"/">>}
  ELSE paths(n - 1) \cup {Append(q, c) : q \in paths(n - 1), c \in PathParts}

\* window.location: pathname starts with a slash, search is apart from it.
Locations == [pathname : paths(MaxPathLen), search : {<<>>, <<"?", "x=1">>}]

\* window.location.href
href(loc) == <<"https://example.com">> \o loc.pathname \o loc.search

\* The URL rule that is followed.
ThankYou == [type |-> "url", match_type |-> "exact", pattern |-> <<"/", "thank-you">>]

\* Variant: the pathname only has to start with the pattern.
startsWith(loc, pattern) ==
  Len(loc.pathname) >= Len(pattern) /\ SubSeq(loc.pathname, 1, Len(pattern)) = pattern

\* checkUrlConversions, case "exact": currentUrl === pattern or
\* currentPath === pattern.
exact(loc, pattern) == href(loc) = pattern \/ loc.pathname = pattern

\* checkUrlConversions() for the rule ThankYou: send("conversion", ...) is
\* called when the rule matched.
CheckUrlConversions ==
  /\ matched = "pending"
  /\ matched' = IF exact(location, ThankYou.pattern) THEN "true" ELSE "false"
  /\ UNCHANGED <<directVars, workerVars, sdkVars, sessionLog, fetchUnit, geoUnit,
                 location, convUnit, pingUnit>>

\* The events send() awaits getGeolocationData() for.
GeoEvents == {"session_start", "conversion"}

\* getGeolocationData(): what the send() that calls it waits for. "null" and
\* "cached" are there at once, "platform" is the callback of
\* navigator.geolocation.getCurrentPosition.
getGeolocationData ==
  IF ~enableGeolocation THEN "null"
  ELSE IF cachedLocation THEN "cached"
  ELSE IF isRequesting THEN "null"
  ELSE IF ~geoSupported THEN "null"
  ELSE "platform"

\* What the steps of send() and the GeolocationManager leave alone.
geoOnly ==
  /\ UNCHANGED <<initVars, sessionId, pingTimer, now, lastUnload, lastInit>>
  /\ UNCHANGED <<navOnLine, flushes, sent, shift, done, sentOffline, lastFlush, delivered,
                 version, toMain, config, eventQueue, wIsOnline, flushTimer,
                 wFlushes, tracked, wSend, wFetch, wFail, wMsg, env>>
  /\ UNCHANGED <<sessionLog, fetchUnit, urlUnit, convUnit, pingUnit,
                 enableGeolocation, geoSupported,
                 clickRule, lastClick>>
  /\ transportKept

\* send(event, data) for session_start or conversion, up to its suspension
\* on getGeolocationData().
GeoSend ==
  \E e \in GeoEvents :
    /\ started < MaxSends
    /\ isActive(sessionId)
    /\ geoWaits' = geoWaits \cup {[id |-> started + 1, event |-> e,
                                    data |-> plain("geo"),
                                    geo |-> getGeolocationData]}
    /\ isRequesting' = (isRequesting \/ getGeolocationData = "platform")
    /\ started' = started + 1
    /\ lastSend' = [result |-> "waiting", session |-> sessionId]
    /\ lastGeo' = "none"
    /\ UNCHANGED <<sentEvents, timers, handoffs, cachedLocation>>
    /\ noHandOff /\ geoOnly

\* The continuation of a send() whose getGeolocationData() needed no answer
\* from the platform.
GeoSettle ==
  \E w \in geoWaits :
   \E outcome \in Beacons(w.event) :
    /\ w.geo # "platform"
    /\ build(w.event, w.data, outcome, FALSE, started, geoWaits \ {w})
    /\ lastGeo' = IF w.geo = "cached" THEN "present" ELSE "absent"
    /\ UNCHANGED <<isRequesting, cachedLocation>>
    /\ geoOnly

\* The platform calls back: with a position, which is cached, or with an
\* error (permission denied, position unavailable, timeout). The catch block
\* of getCurrentLocation reads startTime, which is declared inside the try
\* block, and throws before it resets isRequesting; getGeolocationData()
\* catches that and returns null.
GeoCallback ==
  \E w \in geoWaits, position \in BOOLEAN :
   \E outcome \in Beacons(w.event) :
    /\ w.geo = "platform"
    /\ build(w.event, w.data, outcome, FALSE, started, geoWaits \ {w})
    /\ lastGeo' = IF position THEN "present" ELSE "absent"
    /\ isRequesting' = ~position
    /\ cachedLocation' = (cachedLocation \/ position)
    /\ geoOnly

MaxDeliveries == 2    \* acceptances of one payload that the record counts

min(a, b) == IF a < b THEN a ELSE b

\* How often the collector accepted payload i in the last step: the GET of a
\* send() for it was answered 200 or 202, or the platform took a beacon for it.
acceptances(i) ==
  (IF done # NoDone /\ done.ret /\ done.p.id = i THEN 1 ELSE 0)
    + Cardinality({k \in DOMAIN calls : calls[k].id = i /\ calls[k].beacon = "ok"})

\* The parts of the state that one specification leaves alone.
directIdle ==
  /\ isOnline = TRUE /\ queue = <<>> /\ requests = {} /\ flushes = <<>>
  /\ sent = {} /\ shift = 0 /\ calls = <<>> /\ done = NoDone
  /\ sentOffline = {} /\ lastFlush = NoFlush
  /\ delivered = [i \in PayloadIds |-> 0]

workerIdle ==
  /\ isSupported = FALSE /\ initThrew = FALSE
  /\ worker = "null" /\ queueSize = 0 /\ toWorker = <<>> /\ toMain = <<>>
  /\ config = FALSE /\ eventQueue = <<>> /\ wIsOnline = TRUE
  /\ flushTimer = FALSE /\ wFlushes = <<>> /\ directSends = {}
  /\ tracked = 0 /\ wSend = NoSend /\ wFetch = 0 /\ wFail = NoFail /\ wMsg = "none"

sdkIdle ==
  /\ env = [useWorker |-> FALSE, hasWorker |-> FALSE, throws |-> FALSE]
  /\ inits = 0 /\ locating = 0 /\ autoInitAttempted = FALSE
  /\ isInitialized = FALSE /\ trackerToken = "none" /\ created = 0
  /\ issued = 0 /\ transportKind = "none" /\ lastInit = NoInit
  /\ sessionId = 0 /\ pingTimer = FALSE /\ now = 0 /\ sentEvents = {}
  /\ timers = {} /\ geoWaits = {} /\ started = 0 /\ handoffs = {}
  /\ lastSend = NoLast /\ lastUnload = NoUnload /\ rulesIdle

vars == <<directVars, workerVars, sdkVars, unitVars>>

directOnly == UNCHANGED <<workerVars, sdkVars, unitVars, delivered>>

workerOnly ==
  UNCHANGED <<isOnline, queue, requests, flushes, sent, shift, calls, done,
              sentOffline, lastFlush, delivered, sdkVars, unitVars>>

\* Direct Mode on its own: an ApiTransport and its caller.
Init == DirectInit /\ workerIdle /\ version = "v2" /\ sdkIdle /\ unitIdle
Next ==
  \/ Send /\ directOnly
  \/ Response /\ directOnly
  \/ JsonDone /\ directOnly
  \/ FlushResponse /\ directOnly
  \/ FlushJsonDone /\ directOnly
  \/ FlushQueue /\ directOnly
  \/ Online /\ directOnly
  \/ Offline /\ directOnly
Spec == Init /\ [][Next]_vars

\* Direct Mode whose caller only sends: flushes start from the 'online'
\* notification alone.
OnlineNext ==
  \/ Send /\ directOnly
  \/ Response /\ directOnly
  \/ JsonDone /\ directOnly
  \/ FlushResponse /\ directOnly
  \/ FlushJsonDone /\ directOnly
  \/ Online /\ directOnly
  \/ Offline /\ directOnly
SpecOnline == Init /\ [][OnlineNext]_vars

\* Direct Mode with the collector's record: every step adds the payloads
\* the collector accepted in it (a GET answered 200 or 202, a beacon taken).
recorded ==
  /\ delivered' = [i \in PayloadIds |-> min(delivered[i] + acceptances(i)', MaxDeliveries)]
  /\ UNCHANGED <<workerVars, sdkVars, unitVars>>
DeliveryNext ==
  \/ Send /\ recorded
  \/ Response /\ recorded
  \/ JsonDone /\ recorded
  \/ FlushResponse /\ recorded
  \/ FlushJsonDone /\ recorded
  \/ FlushQueue /\ recorded
  \/ Online /\ recorded
  \/ Offline /\ recorded
SpecDelivery == Init /\ [][DeliveryNext]_vars

\* Background Mode on its own: an ApiWorkerTransport, its worker and its caller.
WorkerSpecInit == WorkerInit /\ directIdle /\ sdkIdle /\ unitIdle
WorkerNext ==
  \/ WSend /\ workerOnly
  \/ WSendDirectDone /\ workerOnly
  \/ WFlush /\ workerOnly
  \/ WGetQueueSize /\ workerOnly
  \/ WTerminate /\ workerOnly
  \/ WPlatform /\ workerOnly
  \/ WHandleWorkerMessage /\ workerOnly
  \/ WorkerMessage /\ workerOnly
  \/ WorkerTimer /\ workerOnly
  \/ WorkerResponse /\ workerOnly
SpecWorker == WorkerSpecInit /\ [][WorkerNext]_vars

\* The worker for as long as it lives, with the transport that posts to it:
\* the messages it handles, its timer and the answers to its requests.
HandlersSpecInit == WorkerSpecInit /\ worker = "alive"
HandlersNext ==
  \/ WSend /\ workerOnly
  \/ WFlush /\ workerOnly
  \/ WPlatform /\ workerOnly
  \/ WHandleWorkerMessage /\ workerOnly
  \/ WorkerMessage /\ workerOnly
  \/ WorkerTimer /\ workerOnly
  \/ WorkerResponse /\ workerOnly
SpecHandlers == HandlersSpecInit /\ [][HandlersNext]_vars

\* The SDK of a page that calls init() or autoInit() until one call succeeds,
\* never two at a time, from that call to unload, handing its events to the
\* transport while time passes.
SdkSpecInit == SdkInit /\ directIdle /\ workerIdle
SdkNext ==
  \/ InitCall /\ inits = 0 /\ issued = 0
  \/ AutoInit /\ inits = 0 /\ issued = 0
  \/ InitDone
  \/ InitLocated
  \/ TrackEvent
  \/ TrackPageView
  \/ Ping
  \/ GeoDone
  \/ Unload
  \/ Tick
  \/ TimerFire
SpecSdk == SdkSpecInit /\ [][SdkNext]_vars

\* The SDK with the direct transport on a page that is online, and the clock
\* for as long as a key is registered: time passes and the platform runs the
\* timers that are due.
ExpirySpecInit ==
  /\ SdkSpecInit
  /\ navOnLine
  /\ env = [useWorker |-> FALSE, hasWorker |-> FALSE, throws |-> FALSE]
ExpiryNext ==
  \/ InitCall /\ inits = 0 /\ issued = 0
  \/ InitDone
  \/ TrackEvent
  \/ GeoDone
  \/ Elapse
  \/ TimerFire
SpecExpiry ==
  ExpirySpecInit /\ [][ExpiryNext]_vars /\ WF_vars(Elapse) /\ WF_vars(TimerFire)

\* The life cycle of the SDK under any interleaving of init(), autoInit() and
\* destroy() calls, within one tick of the clock.
LifecycleNext ==
  \/ InitCall
  \/ AutoInit
  \/ InitDone
  \/ InitLocated
  \/ Destroy
  \/ TrackEvent
  \/ TrackPageView
  \/ Ping
  \/ GeoDone
  \/ Unload
SpecLifecycle == SdkSpecInit /\ [][LifecycleNext]_vars

\* A Session on its own, from its construction, under any sequence of start()
\* and end() calls.
SessionSpecInit ==
  /\ directIdle /\ workerIdle /\ sdkIdle /\ unitIdle
  /\ navOnLine = TRUE /\ version = "v2"
SessionNext ==
  \/ SessionStart
  \/ SessionEnd
SpecSession == SessionSpecInit /\ [][SessionNext]_vars

\* fetchConversionRules() on its own, for each answer its request can get.
FetchSpecInit ==
  /\ directIdle /\ workerIdle
  /\ navOnLine = TRUE /\ version = "v2"
  /\ env = [useWorker |-> FALSE, hasWorker |-> FALSE, throws |-> FALSE]
  /\ inits = 0 /\ locating = 0 /\ autoInitAttempted = FALSE
  /\ isInitialized = FALSE /\ created = 0
  /\ issued = 0 /\ transportKind = "none" /\ lastInit = NoInit
  /\ sessionId = 0 /\ pingTimer = FALSE /\ now = 0 /\ sentEvents = {}
  /\ timers = {} /\ geoWaits = {} /\ started = 0 /\ handoffs = {}
  /\ lastSend = NoLast /\ lastUnload = NoUnload /\ rulesIdle
  /\ sessionLog = <<>> /\ geoIdle /\ urlIdle /\ convIdle /\ pingIdle
  /\ trackerToken \in {"none", "T"}
  /\ answer \in Answers
  /\ accepted = "pending"
FetchNext == FetchConversionRules

\* The SDK on a page without Worker whose server holds a click rule, under
\* any interleaving of init() and destroy() calls and of clicks on an
\* element the rule selects.
RulesSpecInit ==
  /\ directIdle /\ workerIdle
  /\ navOnLine = TRUE /\ version = "v2"
  /\ env = [useWorker |-> FALSE, hasWorker |-> FALSE, throws |-> FALSE]
  /\ clickRule = TRUE
  /\ SdkStart
RulesNext ==
  \/ InitCall
  \/ InitDone
  \/ InitLocated
  \/ Destroy
  \/ GeoDone
  \/ Click
SpecRules == RulesSpecInit /\ [][RulesNext]_vars

\* checkUrlConversions() on its own with one exact rule, for each location.
UrlSpecInit ==
  /\ directIdle /\ workerIdle /\ sdkIdle
  /\ navOnLine = TRUE /\ version = "v2"
  /\ sessionLog = <<>> /\ fetchIdle /\ geoIdle /\ convIdle /\ pingIdle
  /\ location \in Locations
  /\ matched = "pending"
UrlNext == CheckUrlConversions
SpecUrl == UrlSpecInit /\ [][UrlNext]_vars

\* EventTracker.send() with the GeolocationManager, on an SDK that init() has
\* just started with the direct transport, while the session lasts. The
\* continuation of a send() that waits for nothing from the platform always
\* runs; the platform need not call back.
GeoSpecInit ==
  /\ directIdle /\ workerIdle
  /\ navOnLine = TRUE /\ version = "v2"
  /\ env = [useWorker |-> FALSE, hasWorker |-> FALSE, throws |-> FALSE]
  /\ inits = 0 /\ locating = 0 /\ autoInitAttempted = FALSE
  /\ isInitialized = TRUE /\ trackerToken = "T" /\ created = 1
  /\ issued = 1 /\ transportKind = "direct" /\ lastInit = NoInit
  /\ sessionId = 1 /\ pingTimer = TRUE /\ now = 0 /\ sentEvents = {}
  /\ timers = {} /\ geoWaits = {} /\ started = 0 /\ handoffs = {}
  /\ lastSend = NoLast /\ lastUnload = NoUnload /\ rulesIdle
  /\ sessionLog = <<>> /\ fetchIdle /\ urlIdle /\ convIdle /\ pingIdle
  /\ enableGeolocation \in BOOLEAN
  /\ geoSupported \in BOOLEAN
  /\ cachedLocation \in BOOLEAN
  /\ isRequesting = FALSE
  /\ lastGeo = "none"
GeoNext ==
  \/ GeoSend
  \/ GeoSettle
  \/ GeoCallback
SpecGeo == GeoSpecInit /\ [][GeoNext]_vars /\ WF_vars(GeoSettle)
SpecFetch == FetchSpecInit /\ [][FetchNext]_vars

\* =========================================================================
\* EventTracker.send() and the URL conversion rules of the configuration.
\* =========================================================================

MaxRules == 2         \* conversion rules the configuration holds
MaxConvSends == 2     \* send() calls the page makes

\* A rule is a click rule, or a URL rule whose pattern matches the current
\* location (hit) or does not.
Rules == {[type |-> "click", hit |-> FALSE], [type |-> "url", hit |-> FALSE],
          [type |-> "url", hit |-> TRUE]}

RuleLists == UNION {[1..n -> Rules] : n \in 0..MaxRules}

\* The events the page sends; conversions come from the rules.
ConvEvents == {"page_view", "session_start", "ping"}

\* Variant: every event that is sent has the rules evaluated.
triggersAlways(e) == TRUE

\* The test after transport.send(): event is page_view or session_start.
triggers(e) == e \in {"page_view", "session_start"}

\* rules.filter(r => r.type === "url"), as the rules' positions.
urlRules(rs) == SelectSeq([i \in DOMAIN rs |-> i], LAMBDA i : rs[i].type = "url")

\* checkUrlConversions(): the rules for which send("conversion") is called,
\* in the order of the calls.
checkUrlConversions(rs) == SelectSeq(urlRules(rs), LAMBDA i : rs[i].hit)

\* send() from its duplicate check on, for the call w = [id, event, rule]:
\* a key that is registered ends the call; otherwise the key is registered,
\* the payload handed over and, after a triggering event, the rules are
\* evaluated. A conversion send passes the session gate and waits for
\* getGeolocationData().
convBuild(w, waits) ==
  LET key == <<w.event, w.rule>>
      convs == IF triggers(w.event) THEN checkUrlConversions(conversionRules)
               ELSE <<>>
  IN IF key \in convKeys
       THEN /\ lastEval' = [event |-> w.event, passed |-> FALSE, convs |-> <<>>]
            /\ convWaits' = waits
            /\ UNCHANGED convKeys
       ELSE /\ lastEval' = [event |-> w.event, passed |-> TRUE, convs |-> convs]
            /\ convKeys' = convKeys \cup {key}
            /\ convWaits' =
                 IF convActive
                   THEN waits \cup {[id |-> w.id, event |-> "conversion",
                                      rule |-> convs[k]] : k \in DOMAIN convs}
                   ELSE waits

convOnly ==
  UNCHANGED <<directVars, workerVars, sdkVars, sessionLog, fetchUnit, geoUnit,
              urlUnit, pingUnit, conversionRules>>

\* The page calls send(e).
ConvSend ==
  \E e \in ConvEvents :
    /\ convSent < MaxConvSends
    /\ convSent' = convSent + 1
    /\ IF ~isActive(IF convActive THEN 1 ELSE 0)
         THEN /\ lastEval' = [event |-> e, passed |-> FALSE, convs |-> <<>>]
              /\ UNCHANGED <<convKeys, convWaits>>
         ELSE IF geolocated(e)
           THEN /\ convWaits' = convWaits \cup
                                   {[id |-> convSent + 1, event |-> e, rule |-> 0]}
                /\ lastEval' = NoEval
                /\ UNCHANGED convKeys
           ELSE convBuild([id |-> convSent + 1, event |-> e, rule |-> 0], convWaits)
    /\ UNCHANGED convActive
    /\ convOnly

\* getGeolocationData() settles for a suspended send().
ConvGeoDone ==
  \E w \in convWaits :
    /\ convBuild(w, convWaits \ {w})
    /\ UNCHANGED <<convActive, convSent>>
    /\ convOnly

\* The timer of a registered key fires.
ConvExpire ==
  \E k \in convKeys :
    /\ convKeys' = convKeys \ {k}
    /\ lastEval' = NoEval
    /\ UNCHANGED <<convActive, convWaits, convSent>>
    /\ convOnly

\* session.start() or session.end().
ConvSession ==
  /\ convActive' = ~convActive
  /\ lastEval' = NoEval
  /\ UNCHANGED <<convKeys, convWaits, convSent>>
  /\ convOnly

\* An EventTracker with any list of rules, under any sequence of sends.
ConvSpecInit ==
  /\ directIdle /\ workerIdle /\ sdkIdle
  /\ navOnLine = TRUE /\ version = "v2"
  /\ sessionLog = <<>> /\ fetchIdle /\ geoIdle /\ urlIdle /\ pingIdle
  /\ conversionRules \in RuleLists
  /\ convActive \in BOOLEAN
  /\ convKeys = {}
  /\ convWaits = {}
  /\ convSent = 0
  /\ lastEval = NoEval
ConvNext ==
  \/ ConvSend
  \/ ConvGeoDone
  \/ ConvExpire
  \/ ConvSession
SpecConv == ConvSpecInit /\ [][ConvNext]_vars

\* =========================================================================
\* PingTracker and the visibilitychange listener of BrowserListeners.
\* =========================================================================

MaxIntervals == 5     \* setInterval() calls a PingTracker makes
MaxPingTicks == 4     \* interval callbacks that run

\* stop(): clearInterval(this.timer) when there is one; the timers left.
stop(live, t) == IF t # 0 THEN live \ {t} ELSE live

\* start(): stop(), then this.timer = setInterval(...).
start ==
  /\ made < MaxIntervals
  /\ made' = made + 1
  /\ timer' = made + 1
  /\ intervals' = stop(intervals, timer) \cup {made + 1}

pingOnly ==
  UNCHANGED <<directVars, workerVars, sdkVars, sessionLog, fetchUnit, geoUnit,
              urlUnit, convUnit>>

\* pingTracker.start(), as init() calls it. The init() that follows a
\* destroy() makes another PingTracker, which is not followed.
PingStart ==
  /\ ~pingEnded
  /\ start
  /\ lastPing' = NoPing
  /\ UNCHANGED <<docHidden, timeSpent, pingEnded>>
  /\ pingOnly

\* pingTracker.stop(), as the unload listener and destroy() call it, once
\* init() has made the PingTracker and installed the listeners.
PingStop ==
  /\ made > 0
  /\ timer' = 0
  /\ intervals' = stop(intervals, timer)
  /\ pingEnded' = TRUE
  /\ lastPing' = NoPing
  /\ UNCHANGED <<docHidden, made, timeSpent>>
  /\ pingOnly

\* The page's visibility changes and the visibilitychange listener runs, if
\* init() has installed it.
VisibilityChange ==
  /\ docHidden' = ~docHidden
  /\ IF made = 0
       THEN UNCHANGED <<timer, intervals, made>>
       ELSE IF docHidden'
         THEN /\ timer' = 0
              /\ intervals' = stop(intervals, timer)
              /\ UNCHANGED made
         ELSE start
  /\ lastPing' = NoPing
  /\ UNCHANGED <<timeSpent, pingEnded>>
  /\ pingOnly

\* The callback of a repeating timer that is set: timeSpent grows by one
\* interval and a ping is sent.
PingInterval ==
  \E id \in intervals :
    /\ timeSpent < MaxPingTicks
    /\ timeSpent' = timeSpent + 1
    /\ lastPing' = [fired |-> TRUE, hidden |-> docHidden, id |-> id]
    /\ UNCHANGED <<docHidden, timer, intervals, made, pingEnded>>
    /\ pingOnly

\* A PingTracker from its construction, on a page that is visible or hidden.
PingSpecInit ==
  /\ directIdle /\ workerIdle /\ sdkIdle
  /\ navOnLine = TRUE /\ version = "v2"
  /\ sessionLog = <<>> /\ fetchIdle /\ geoIdle /\ urlIdle /\ convIdle
  /\ docHidden \in BOOLEAN
  /\ timer = 0
  /\ intervals = {}
  /\ made = 0
  /\ timeSpent = 0
  /\ lastPing = NoPing
  /\ pingEnded = FALSE
PingNext ==
  \/ PingStart
  \/ PingStop
  \/ VisibilityChange
  \/ PingInterval
SpecPing == PingSpecInit /\ [][PingNext]_vars

\* ------------------------------------------------------ Direct Mode: claims

\* The identities of the payloads in the sequence q.
ids(q) == {q[i].id : i \in DOMAIN q}

\* A send() invocation that started a network call (a beacon handed to the
\* platform, or a GET).
networkCall(c) == c.gets > 0 \/ c.beacon \in {"failed", "ok"}

\* C1: a send() called while the online flag is false appends its payload to
\* the queue, returns false and starts no network call; the payload stays in
\* the queue, with no network call for it, until an online notification or a
\* flushQueue() call.
C1_OfflineSendIsBuffered ==
  /\ \A i \in DOMAIN calls :
       ~calls[i].online =>
         /\ calls[i].ret = "false"
         /\ ~networkCall(calls[i])
         /\ calls[i].id \in ids(queue)
  /\ (calls # <<>> /\ ~calls[Len(calls)].online) =>
       (queue # <<>> /\ queue[Len(queue)].id = calls[Len(calls)].id)
  /\ \A p \in sentOffline :
       /\ p \in ids(queue)
       /\ \A i \in DOMAIN calls : calls[i].id = p => ~networkCall(calls[i])
       /\ \A r \in requests : r.p.id # p
       /\ \A i \in DOMAIN flushes : flushes[i].cur.id # p

\* C1 witness: a payload was just sent offline and sits at the end of the queue.
C1_Witness ==
  /\ Len(calls) = 1
  /\ ~calls[1].online
  /\ calls[1].id \in sentOffline
  /\ queue[Len(queue)].id = calls[1].id
  /\ flushes = <<>>

\* The subsequence of snap at the positions where res is FALSE.
RECURSIVE failedOf(_, _)
failedOf(snap, res) ==
  IF snap = <<>> THEN <<>>
  ELSE IF Head(res) THEN failedOf(Tail(snap), Tail(res))
  ELSE <<Head(snap)>> \o failedOf(Tail(snap), Tail(res))

\* res is M successes followed by failures only.
successesFirst(res) ==
  \E m \in 0..Len(res) : \A i \in DOMAIN res : res[i] <=> (i <= m)

distinct(q) == \A i, j \in DOMAIN q : q[i] = q[j] => i = j

\* C2: a flushQueue() over a queue of N distinct payloads, with no send of the
\* caller and no other flush running meanwhile, whose first M deliveries succeed
\* and whose other N-M fail, leaves exactly the N-M failed payloads in the
\* queue, each once, in their original order.
C2_FlushLeavesFailedOnce ==
  (/\ lastFlush # NoFlush
   /\ lastFlush.clean
   /\ distinct(lastFlush.snap)
   /\ successesFirst(lastFlush.res))
  => lastFlush.after = failedOf(lastFlush.snap, lastFlush.res)

CriticalEvents == {"session_end", "page_unload"}

\* C6: an online send() of a critical event tries the beacon first and issues
\* the GET exactly when the beacon is unsupported or fails; an online send() of
\* any other event type never tries the beacon and issues exactly one GET.
C6_DispatchChoice ==
  \A i \in DOMAIN calls :
    calls[i].online =>
      IF calls[i].event \in CriticalEvents
        THEN /\ calls[i].beacon \in BeaconOutcomes
             /\ calls[i].gets = (IF calls[i].beacon = "ok" THEN 0 ELSE 1)
        ELSE /\ calls[i].beacon = "none"
             /\ calls[i].gets = 1

\* C6 witness: an online send of a critical event fell back to the GET after
\* the beacon was refused.
C6_Witness ==
  \E i \in DOMAIN calls :
    /\ calls[i].online
    /\ calls[i].event = "page_unload"
    /\ calls[i].beacon = "failed"
    /\ calls[i].gets = 1

\* C8: a send() that awaited its GET returns true exactly for status 200 or
\* 202; otherwise (500, another status, a network error, a redirect) it returns
\* false after appending its payload to the queue, and a caller's failed send
\* is followed by no further network call in that step.
C8_ResponseHandling ==
  done # NoDone =>
    /\ done.ret <=> done.status \in {200, 202}
    /\ done.ret => done.after = done.before
    /\ ~done.ret => done.after = Append(done.before, done.p)
    /\ done.owner = "caller" => (queue = done.after /\ calls = <<>>)

\* C8 witness: a caller's GET was answered with a 2xx status that is not a
\* success, and the payload went to the queue.
C8_Witness ==
  /\ done # NoDone
  /\ done.owner = "caller"
  /\ done.status = 204
  /\ ~done.ret
  /\ queue = Append(done.before, done.p)

\* --- Background Mode: claims

\* C3: when a request of a worker flush fails, the whole batch snapshot of
\* that flush, the events already delivered included, is appended to what the
\* worker's batch holds at that moment (the events that arrived meanwhile stay
\* in front of it), and FLUSH_ERROR is posted with the size of the snapshot.
C3_FailedFlushRestoresBatch ==
  wFail # NoFail =>
    /\ wFail.after = wFail.before \o wFail.batch
    /\ Len(wFail.after) = Len(wFail.before) + Len(wFail.batch)
    /\ eventQueue = wFail.after
    /\ wFail.posted = [type |-> "FLUSH_ERROR", n |-> Len(wFail.batch)]

C3_Witness ==
  /\ wFail # NoFail
  /\ version = "v2"
  /\ Len(wFail.batch) = 2
  /\ wFail.i = 2
  /\ eventQueue = wFail.batch
  /\ toMain # <<>>
  /\ toMain[Len(toMain)].type = "FLUSH_ERROR"

\* C5: the worker starts no network request while the platform is offline.
C5_NoWorkerFetchWhileOffline == wFetch > 0 => navOnLine

\* C10: a send() on an ApiWorkerTransport that has no worker returns false,
\* posts no message, leaves queueSize as it was and starts no request from
\* the main thread.
C10_SendWithoutWorker ==
  (wSend # NoSend /\ ~wSend.hadWorker) =>
    /\ wSend.ret = "false"
    /\ ~wSend.posted
    /\ wSend.sizeAfter = wSend.sizeBefore
    /\ ~wSend.direct

\* --- SDK: claims

\* C4: of the send() calls of one EventTracker with an active session that
\* agree in event type, timestamp and data, a second one less than 2000 ms
\* after the one that reached the transport does not reach it: the key of a
\* hand-off is remembered for the whole window, and no payload is handed to
\* the transport while an equal one was handed over within the window.
C4_DuplicateSuppressed ==
  /\ \A h \in handoffs : now - h.at < DedupWindow => h.key \in sentEvents
  /\ lastSend.result = "sent" => ~lastSend.repeat

C4_Witness ==
  /\ lastSend.result = "duplicate"
  /\ sessionId # 0
  /\ \E h \in handoffs :
       h.key = lastSend.key /\ h.at < now /\ now - h.at < DedupWindow
  /\ Cardinality({h \in handoffs : h.key = lastSend.key}) = 1

\* C7: when the page unloads with an active session, Direct Mode online and
\* a beacon the browser accepts, the session-end event reaches the transport
\* as a critical event and leaves through the beacon, with no GET request.
C7_UnloadUsesBeacon ==
  (/\ lastUnload.ran
   /\ lastUnload.active
   /\ lastUnload.direct
   /\ lastUnload.online
   /\ lastUnload.outcome = "ok") =>
    /\ lastSend.result = "sent"
    /\ Len(calls) = 1
    /\ calls[1].event \in CriticalEvents
    /\ calls[1].beacon = "ok"
    /\ calls[1].gets = 0

\* C9: when building the worker threw during init(), the SDK holds the Direct
\* Mode transport and every event it hands over goes through it.
C9_InitFailureFallsBackToDirect ==
  (isInitialized /\ initThrew) =>
    /\ transportKind = "direct"
    /\ lastSend.result = "sent" => lastSend.via = "direct"

\* C11: when the page sets useWorker to false, init() builds the direct
\* transport only: no worker exists, nothing is posted to one or counted for
\* one, and every payload handed over afterwards goes through
\* ApiTransport.send.
C11_DirectOnlyWithoutFlag ==
  ~env.useWorker =>
    /\ transportKind \in {"none", "direct"}
    /\ worker = "null" /\ ~isSupported
    /\ toWorker = <<>> /\ queueSize = 0 /\ directSends = {}
    /\ lastSend.result = "sent" => lastSend.via = "direct" /\ Len(calls) = 1

\* A page that has Worker and sets useWorker to false has handed a payload to
\* the direct transport.
C11_Witness ==
  /\ ~env.useWorker /\ env.hasWorker
  /\ transportKind = "direct"
  /\ lastSend.result = "sent" /\ lastSend.via = "direct"


\* C12: under any interleaving of init() and autoInit() calls, at most one
\* Session is started, and one transport and one set of listeners created,
\* before destroy().
C12_OneSessionPerPage == created <= 1


\* C13: EventTracker.send() called while the session is not active does
\* nothing: no payload reaches the transport, no key is registered, no timer
\* is set, no conversion rule is evaluated and no call is left suspended; a
\* call that goes past the gate found the session active.
C13_SessionGate ==
  /\ lastSend.result = "no_session" => sendState = lastSend.before
  /\ lastSend.result = "waiting" => lastSend.session # 0
  /\ lastSend.result = "sent" /\ ~geolocated(lastSend.key[1]) => lastSend.session # 0

\* send() was called after the session had ended, while keys, timers and
\* earlier hand-offs were there to be disturbed.
C13_Witness ==
  /\ lastSend.result = "no_session"
  /\ sessionId = 0
  /\ handoffs # {} /\ timers # {}


\* C17: the session_start payload handed to the transport after a successful
\* init with token "T" has the event type session_start, the identifier of
\* the active session as its session_id, and "T" as its tracker_token.
C17_SessionStartPayload ==
  lastSend.result = "sent" /\ lastSend.key[1] = "session_start" =>
    /\ lastSend.event = "session_start"
    /\ lastSend.session # 0 /\ lastSend.session = sessionId
    /\ lastSend.token = "T"


\* C14: after any sequence of start() and end() calls on a Session, it is
\* active exactly when the last call was start(); start() installs an
\* identifier that is not null and that no earlier start() returned, end()
\* sets it to null, and getId() is not null exactly when isActive().
C14_SessionMachine ==
  LET n == Len(sessionLog)
  IN /\ n = 0 => ~isActive(sessionId)
     /\ n > 0 => (isActive(sessionId) <=> sessionLog[n].call = "start")
     /\ n > 0 /\ sessionLog[n].call = "start" =>
          /\ getId = sessionLog[n].ret /\ getId # 0
          /\ \A i \in 1..(n - 1) : sessionLog[i].ret # getId
     /\ n > 0 /\ sessionLog[n].call = "end" => getId = 0
     /\ getId # 0 <=> isActive(sessionId)

\* The session has gone from active to inactive and back to active, twice.
C14_Witness ==
  /\ Len(sessionLog) >= 5
  /\ \A i \in 1..5 : sessionLog[i].call = IF i % 2 = 1 THEN "start" ELSE "end"
  /\ isActive(sessionId)

\* C16: fetchConversionRules() accepts the answer only if its domain, once
\* normalized, is the page's origin or the wildcard.
C16_DomainValidated ==
  accepted = "true" =>
    \/ normalizeDomain(answer.domain) = normalizeDomain(Origin)
    \/ normalizeDomain(answer.domain) = <<"*">>


\* A domain that is there and is neither the page's origin nor the wildcard.
mismatch(d) ==
  normalizeDomain(d) \notin {<<>>, <<"*">>, normalizeDomain(Origin)}

\* C15: init() returns false when the tracker token or the endpoint is
\* missing, when the configuration fetch fails or is answered without
\* success, and when the returned domain does not match; an init() that
\* returns false starts no session, builds no transport, leaves isInitialized
\* as it was and sends nothing; trackEvent, trackPageView and ping on an SDK
\* that is not initialized do nothing, and nothing is ever sent while no
\* init() has succeeded.
C15_FailedInitSendsNothing ==
  /\ lastInit.phase = "call" /\ ~lastInit.complete => lastInit.result = "false"
  /\ lastInit.phase = "done" /\ ( \/ ~lastInit.resp.ok
                                   \/ ~lastInit.resp.success
                                   \/ mismatch(lastInit.resp.domain) )
       => lastInit.result = "false"
  /\ lastInit.result = "false" => snapshot = lastInit.before
  /\ lastSend.result = "not_initialized" => sendState = lastSend.before
  /\ issued = 0 =>
       /\ ~isInitialized /\ sessionId = 0 /\ transportKind = "none"
       /\ handoffs = {} /\ started = 0 /\ sendState = <<{}, {}, {}, {}, <<>>, {}, <<>>, 0, {}>>

\* An init() with a complete configuration has returned false because the
\* domain of the answer is another one, on an SDK that no init() has started.
C15_Witness ==
  /\ lastInit.phase = "done" /\ lastInit.result = "false"
  /\ lastInit.resp.ok /\ lastInit.resp.success /\ mismatch(lastInit.resp.domain)
  /\ issued = 0 /\ ~isInitialized


\* The send() call numbered i is suspended on getGeolocationData().
waiting(i) == \E w \in geoWaits : w.id = i

\* C18: a session_start or conversion event sent with an active session
\* leaves its wait for the geolocation and reaches the hand-off, whatever
\* the platform does, also when it never answers.
C18_GeolocationNeverBlocks == \A i \in 1..MaxSends : waiting(i) ~> ~waiting(i)


\* C19 as stated: with the exact rule for /thank-you, send("conversion") is
\* called if and only if the location is /thank-you with nothing after it:
\* not for /thank-you/ and not for /thank-you?x=1.
C19_ExactMatchAsStated ==
  matched # "pending" =>
    (matched = "true" <=>
       location = [pathname |-> <<"/", "thank-you">>, search |-> <<>>])

\* C19: with the exact rule for /thank-you, send("conversion") is called if
\* and only if window.location.pathname is /thank-you: not for /thank-you/,
\* but for /thank-you?x=1 as well, whose pathname is /thank-you.
C19_ExactMatchOnPathname ==
  matched # "pending" =>
    /\ matched = "true" <=> location.pathname = <<"/", "thank-you">>
    /\ location.pathname = <<"/", "thank-you", "/">> => matched = "false"
    /\ location = [pathname |-> <<"/", "thank-you">>, search |-> <<"?", "x=1">>]
         => matched = "true"

\* The rule was checked at /thank-you?x=1.
C19_Witness ==
  /\ matched = "true"
  /\ location = [pathname |-> <<"/", "thank-you">>, search |-> <<"?", "x=1">>]


\* C20: once init() has succeeded with a configuration that holds a click
\* rule, a click listener for it is installed, and a click on an element it
\* selects while the session is active sends a conversion event.
C20_ClickRuleSendsConversion ==
  /\ isInitialized /\ clickRule => listeners # {}
  /\ lastClick.ran /\ lastClick.active => lastClick.sent

\* ------------------------------------------- Direct Mode: notifications

\* The identities still to come in the loops of the suspended flushes fs.
resting(fs) == UNION {ids(fs[g].rest) : g \in DOMAIN fs}

\* The identities passed to send() in the sequence of invocations cs.
passed(cs) == {cs[k].id : k \in DOMAIN cs}

\* C21: the 'online' notification sets the online flag and starts a flush by
\* itself: every payload queued at that moment is passed to send() in the same
\* step or waits in the flush's loop behind an awaited GET; a payload leaves a
\* flush's loop only by being passed to send(), and a send() made while the
\* flag is true starts a network call.
C21_OnlineFlushes ==
  [][/\ (~navOnLine /\ navOnLine') =>
          /\ isOnline'
          /\ ids(queue) \subseteq passed(calls') \cup resting(flushes')
          /\ \A k \in DOMAIN calls' : networkCall(calls'[k])
     /\ resting(flushes) \ resting(flushes') \subseteq passed(calls')
     /\ \A k \in DOMAIN calls' : calls'[k].online => networkCall(calls'[k])]_vars

\* The notification found two payloads queued: the first is on the network and
\* the second waits for it in the flush's loop.
C21_Witness ==
  /\ isOnline
  /\ done = NoDone
  /\ Len(calls) = 1
  /\ flushes # <<>>
  /\ flushes[Len(flushes)].cur.id = calls[1].id
  /\ flushes[Len(flushes)].rest # <<>>
  /\ networkCall(calls[1])

\* C22: the 'offline' notification sets the online flag to false and changes
\* nothing else: the queue keeps its entries and their order, and no network
\* call is started or abandoned.
C22_OfflineOnlyFlipsFlag ==
  [][(navOnLine /\ ~navOnLine') =>
       /\ ~isOnline'
       /\ queue' = queue
       /\ requests' = requests
       /\ flushes' = flushes
       /\ sent' = sent
       /\ calls' = <<>>]_vars

\* Offline with entries queued while a GET started earlier is still awaited.
C22_Witness ==
  /\ ~navOnLine
  /\ ~isOnline
  /\ queue # <<>>
  /\ requests # {}

\* ------------------------------------------- Background Mode: teardown

\* C23: once the ApiWorkerTransport of part_005 has no worker it never has one
\* again: every later step leaves the reference null, posts no message, and
\* starts no request for an event, so what the worker held is never
\* delivered; a later send() returns false without posting, a later flush()
\* or terminate() changes nothing of the transport.
C23_TeardownIsFinal ==
  [][(version = "v2" /\ worker = "null") =>
       /\ worker' = "null"
       /\ toWorker' = <<>>
       /\ toMain' = toMain
       /\ eventQueue' = <<>>
       /\ wFlushes' = <<>>
       /\ directSends' = {}
       /\ wFetch' = 0
       /\ queueSize' = queueSize
       /\ wSend' # NoSend => (wSend'.ret = "false" /\ ~wSend'.posted)]_vars

\* A transport that had a worker, posted an event to it and was terminated
\* before the event left: the next send() returned false.
C23_Witness ==
  /\ version = "v2"
  /\ isSupported
  /\ ~initThrew
  /\ worker = "null"
  /\ queueSize > 0
  /\ wSend # NoSend
  /\ wSend.ret = "false"

\* ------------------------------------------- Background Mode: queueSize

\* The main thread handles the worker's oldest message in this step.
handled == toMain # <<>> /\ toMain' = Tail(toMain) /\ worker = "alive" /\ worker' = "alive"

\* C24: in the ApiWorkerTransport of part_005, queueSize goes up by exactly one
\* in a send() that posts TRACK_EVENT, goes down by the reported count when a
\* FLUSH_SUCCESS is handled (the count never exceeds it), stays as it is when
\* FLUSH_ERROR or INIT_SUCCESS is handled and in every other step, and is
\* never negative.
C24_QueueSizeBookkeeping ==
  [][version = "v2" =>
       /\ queueSize >= 0 /\ queueSize' >= 0
       /\ IF wSend' # NoSend /\ wSend'.posted
            THEN queueSize' = queueSize + 1
          ELSE IF handled /\ Head(toMain).type = "FLUSH_SUCCESS"
            THEN /\ Head(toMain).n <= queueSize
                 /\ queueSize' = queueSize - Head(toMain).n
          ELSE queueSize' = queueSize]_vars

\* Two events were posted, the worker delivered both, and the FLUSH_SUCCESS
\* reports brought the counter back to zero.
C24_Witness ==
  /\ version = "v2"
  /\ worker = "alive"
  /\ tracked = 2
  /\ queueSize = 0
  /\ toWorker = <<>>
  /\ toMain = <<>>
  /\ eventQueue = <<>>
  /\ wFlushes = <<>>

\* ------------------------------------------- Background Mode: the worker

\* The worker handles the message at the head of its channel in this step.
handles(type) ==
  /\ toWorker # <<>>
  /\ Head(toWorker).type = type
  /\ toWorker' = Tail(toWorker)
  /\ wMsg' = type

\* The flush that a handler starts on the batch q: the batch is emptied, the
\* snapshot q is held by a new suspended flush, and its first request starts.
flushStarts(q) ==
  /\ eventQueue' = <<>>
  /\ wFlushes' = Append(wFlushes, [batch |-> q, i |-> 1])
  /\ wFetch' = 1

\* C25: the TRACK_EVENT handler appends exactly one entry to the batch; when
\* that brings the batch to the threshold while the worker's online flag is
\* true, the flush starts in the same handler, so that after a TRACK_EVENT
\* handled online the batch is shorter than the threshold.
C25_ThresholdFlush ==
  [][handles("TRACK_EVENT") =>
       LET q == Append(eventQueue, Head(toWorker).n) IN
       /\ IF wIsOnline /\ Len(q) >= BatchSize
            THEN flushStarts(q)
            ELSE eventQueue' = q /\ wFlushes' = wFlushes /\ wFetch' = 0
       /\ wIsOnline => Len(eventQueue') < BatchSize]_vars

\* The event that filled the batch was handled: the batch is empty and the
\* first request of a flush of BatchSize events has started.
C25_Witness ==
  /\ wMsg = "TRACK_EVENT"
  /\ wIsOnline
  /\ wFetch = 1
  /\ eventQueue = <<>>
  /\ wFlushes # <<>>
  /\ Len(wFlushes[Len(wFlushes)].batch) = BatchSize

\* The k-th suspended flush of the worker ends in this step with a report.
reports(k, type) ==
  /\ wFlushes' = removeAt(wFlushes, k)
  /\ toMain' = Append(toMain, [type |-> type, n |-> Len(wFlushes[k].batch)])

\* What the worker's flushQueue is said to do, step by step.
flushAlgorithm ==
  /\ handles("FLUSH_QUEUE") =>
       IF eventQueue # <<>> /\ wIsOnline
         THEN flushStarts(eventQueue) /\ toMain' = toMain
         ELSE UNCHANGED <<eventQueue, wFlushes, toMain>> /\ wFetch' = 0
  /\ (wMsg' = "none" /\ wFlushes' # wFlushes /\ worker' = "alive") =>
       \E k \in DOMAIN wFlushes :
         \/ /\ wFlushes[k].i < Len(wFlushes[k].batch)
            /\ wFlushes' = [wFlushes EXCEPT ![k].i = wFlushes[k].i + 1]
            /\ wFetch' = 1
            /\ toMain' = toMain
         \/ /\ wFlushes[k].i = Len(wFlushes[k].batch)
            /\ reports(k, "FLUSH_SUCCESS")
         \/ reports(k, "FLUSH_ERROR")

\* C26: a flush of a non-empty batch of k events takes the batch as its
\* snapshot, leaves the batch empty and issues one request per event, one
\* after the other; it ends with one report, FLUSH_SUCCESS with count k after
\* the k-th request was answered 200 or 202 and FLUSH_ERROR with count k as
\* soon as a request fails; a flush of an empty batch starts no request and
\* posts no report.
C26_FlushAlgorithm == [][flushAlgorithm]_vars

\* No flush starts in this step and the batch stays as it is.
flushSkips == UNCHANGED <<eventQueue, wFlushes>> /\ wFetch' = 0

\* What the ONLINE and OFFLINE handlers do.
flagMessages ==
  /\ handles("ONLINE") =>
       /\ wIsOnline'
       /\ IF eventQueue # <<>> THEN flushStarts(eventQueue) ELSE flushSkips
  /\ handles("OFFLINE") =>
       /\ ~wIsOnline'
       /\ flushSkips
       /\ UNCHANGED <<toMain, config, flushTimer>>

\* C27 as stated: FLUSH_QUEUE starts a flush of the non-empty batch whatever
\* its size; ONLINE sets the worker's online flag and starts a flush; OFFLINE
\* only clears the flag.
C27_ForcedFlushAsStated ==
  [][/\ handles("FLUSH_QUEUE") =>
          /\ wIsOnline' = wIsOnline
          /\ IF eventQueue # <<>> THEN flushStarts(eventQueue) ELSE flushSkips
     /\ flagMessages]_vars

\* C27, narrowed: FLUSH_QUEUE starts a flush of the non-empty batch whatever
\* its size when the worker's online flag is true, and does nothing when the
\* flag is false; ONLINE sets the flag and starts a flush of the non-empty
\* batch; OFFLINE only clears the flag.
C27_ForcedFlushWhenOnline ==
  [][/\ handles("FLUSH_QUEUE") =>
          /\ wIsOnline' = wIsOnline
          /\ IF eventQueue # <<>> /\ wIsOnline
               THEN flushStarts(eventQueue)
               ELSE flushSkips
     /\ flagMessages]_vars

\* FLUSH_QUEUE was handled with a batch below the threshold: the batch is
\* empty and the first request for it has started.
C27_Witness ==
  /\ wMsg = "FLUSH_QUEUE"
  /\ wFetch = 1
  /\ eventQueue = <<>>
  /\ wFlushes # <<>>
  /\ Len(wFlushes[Len(wFlushes)].batch) < BatchSize

\* ------------------------------------------- URL conversion rules: claims

\* How often the rule at position i is in the sequence of calls cs.
times(cs, i) == Cardinality({k \in DOMAIN cs : cs[k] = i})

\* C28: a page_view or session_start that passes the session gate and the
\* duplicate check has every URL rule evaluated: send("conversion") is called
\* once for each URL rule that matches and for no other rule, in the order of
\* the rules; a send() of any other event, a conversion included, and a send()
\* that is dropped evaluate nothing.
C28_UrlRulesEvaluatedOnce ==
  lastEval # NoEval =>
    IF lastEval.passed /\ lastEval.event \in {"page_view", "session_start"}
      THEN /\ \A i \in DOMAIN conversionRules :
                times(lastEval.convs, i) =
                  IF conversionRules[i].type = "url" /\ conversionRules[i].hit
                    THEN 1 ELSE 0
           /\ \A k \in DOMAIN lastEval.convs :
                /\ lastEval.convs[k] \in DOMAIN conversionRules
                /\ k > 1 => lastEval.convs[k - 1] < lastEval.convs[k]
      ELSE lastEval.convs = <<>>

\* A session_start came back from its geolocation wait and two URL rules
\* matched: two conversion sends were made and wait for their own location.
C28_Witness ==
  /\ lastEval # NoEval
  /\ lastEval.passed
  /\ lastEval.event = "session_start"
  /\ Len(lastEval.convs) = 2
  /\ Cardinality({w \in convWaits : w.event = "conversion"}) = 2

\* ------------------------------------------------ PingTracker: claims

\* C29: a PingTracker has at most one repeating timer set; while the page is
\* hidden none is set, so that no interval callback sends a ping or adds to
\* timeSpent on a hidden page.
C29_PausedWhileHidden ==
  /\ Cardinality(intervals) <= 1
  /\ docHidden => intervals = {}
  /\ lastPing.fired => ~lastPing.hidden

\* What holds of the timer: at most one is set, it is the one this.timer
\* names, and each visibility change leaves none (hidden) or one (visible).
C29_OneTimerAtMost ==
  /\ Cardinality(intervals) <= 1
  /\ intervals = IF timer = 0 THEN {} ELSE {timer}

C29_AfterTransition ==
  [][docHidden' # docHidden =>
       Cardinality(intervals') = IF docHidden' THEN 0 ELSE 1]_vars

\* ------------------------------------------------ Dedup registry: claims

\* Every registered key has one timer, set for DedupWindow after the send
\* that registered it, and no key is forgotten before that.
registered ==
  /\ \A k \in sentEvents : Cardinality({t \in timers : t.key = k}) = 1
  /\ \A t \in timers :
       /\ t.key \in sentEvents
       /\ \E h \in handoffs : h.key = t.key /\ t.due = h.at + DedupWindow
  /\ \A h \in handoffs : now - h.at < DedupWindow => h.key \in sentEvents

\* C30: the key of an accepted send() stays registered until its timer runs,
\* which is set for 2000 ms after the registration whatever the
\* configuration; a send() dropped as a duplicate leaves the registry and the
\* timers as they are; and when time passes and the timers that are due run,
\* the registry ends up empty and stays so once the sends have stopped.
C30_RegistryExpiry ==
  /\ [](registered /\ DedupWindow = 2000)
  /\ [][lastSend'.result = "duplicate" => UNCHANGED <<sentEvents, timers>>]_vars
  /\ <>[](sentEvents = {})

\* Keys were registered and their timers have run: the registry is empty
\* 2000 ms after the last registration.
C30_Witness ==
  /\ handoffs # {}
  /\ sentEvents = {}
  /\ timers = {}
  /\ \A h \in handoffs : now >= h.at + DedupWindow
  /\ \E h \in handoffs : now = h.at + DedupWindow

\* ------------------------------------------- Delivery and conservation

\* The collector accepted payload i in the last step: the GET of a send() for
\* it was answered 200 or 202, or the platform took a beacon for it.
acceptedNow(i) ==
  \/ done # NoDone /\ done.ret /\ done.p.id = i
  \/ \E k \in DOMAIN calls : calls[k].id = i /\ calls[k].beacon = "ok"

\* C31: no payload is accepted by the collector more than once, under any
\* sequence of sends, failures, flushes and online/offline notifications.
C31_AtMostOnce == \A i \in PayloadIds : delivered[i] <= 1

\* The payloads the transport still holds: in the queue, in the GET of a
\* send() of the caller, or in a flush (its awaited send and what waits
\* behind it).
pending ==
  ids(queue) \cup {r.p.id : r \in requests} \cup resting(flushes)
    \cup {flushes[g].cur.id : g \in DOMAIN flushes}

\* No step drops a payload: one that leaves the transport was accepted by the
\* collector in that step.
neverLost == \A i \in pending : i \in pending' \/ acceptedNow(i)'

\* Once no send is in flight the queue holds no payload twice.
neverDuplicated ==
  (requests' = {} /\ flushes' = <<>>) =>
    \A i, j \in DOMAIN queue' : queue'[i].id = queue'[j].id => i = j

\* C32: after any interleaving of send(), flushQueue() and online/offline
\* notifications, once no send is in flight every payload passed to send()
\* and not yet delivered is in the queue exactly once: no step loses a
\* payload, and no step leaves one in the queue twice.
C32_QueueConservation == [][neverLost /\ neverDuplicated]_vars

C32_NeverLost == [][neverLost]_vars

\* ----------------------------------------------- The worker's bookkeeping

\* The events of a sequence of event numbers.
members(q) == {q[i] : i \in DOMAIN q}

\* The events the worker holds: in its batch (eventQueue) or in the snapshot
\* of a flush that awaits a request.
wHeld ==
  members(eventQueue) \cup UNION {members(wFlushes[k].batch) : k \in DOMAIN wFlushes}

\* This step ends a flush whose snapshot holds event e and posts its
\* FLUSH_SUCCESS.
flushedNow(e) ==
  /\ Len(toMain') = Len(toMain) + 1
  /\ toMain'[Len(toMain')].type = "FLUSH_SUCCESS"
  /\ \E k \in DOMAIN wFlushes :
       /\ e \in members(wFlushes[k].batch)
       /\ wFlushes' = removeAt(wFlushes, k)
       /\ toMain'[Len(toMain')].n = Len(wFlushes[k].batch)

noLoss ==
  /\ handles("TRACK_EVENT") => Head(toWorker).n \in wHeld'
  /\ \A e \in wHeld : e \in wHeld' \/ flushedNow(e)

\* C33: under any interleaving of TRACK_EVENT, FLUSH_QUEUE, ONLINE, OFFLINE,
\* timer ticks and request completions, an event the worker received is in the
\* worker's batch or in the snapshot of a flush in flight until a
\* FLUSH_SUCCESS covering it is posted: the step that handles TRACK_EVENT puts
\* the event there, and a step takes it away only by posting the
\* FLUSH_SUCCESS of the flush that held it.
C33_WorkerNoLoss == [][noLoss]_vars

\* Two flushes overlap, one failed request has put its snapshot back, and the
\* events are all held.
C33_Witness ==
  /\ wFail # NoFail
  /\ wFlushes # <<>>
  /\ members(wFail.batch) \subseteq members(eventQueue)
  /\ Cardinality(wHeld) = MaxEvents

\* C34: at most one flush is in flight in the worker at any time: no flush
\* starts while an earlier one still awaits its requests.
C34_OneFlushInFlight == Len(wFlushes) <= 1

\* No message is in transit in either direction and no flush is in flight.
quiescent == toWorker = <<>> /\ toMain = <<>> /\ wFlushes = <<>>

\* C39: whenever the system is quiescent and the worker has not been
\* terminated, the queueSize of ApiWorkerTransport (the class of part_005,
\* whose FLUSH_SUCCESS handler takes the count off) equals the length of the
\* worker's batch.
C39_QueueSizeTracksWorker ==
  (version = "v2" /\ worker = "alive" /\ quiescent) => queueSize = Len(eventQueue)

\* Quiescent after a flush that succeeded and was reported: of the events
\* sent one was delivered, the other is in the worker's batch.
C39_Witness ==
  /\ version = "v2" /\ worker = "alive" /\ quiescent
  /\ tracked = MaxEvents
  /\ wIsOnline
  /\ queueSize = MaxEvents - 1
  /\ Len(eventQueue) = MaxEvents - 1

\* ------------------------------------------------ Sessions and their events

\* C35: every payload EventTracker.send hands to the transport carries a
\* session_id that is not null, also when the session is ended (unload or
\* destroy) while the send awaits the geolocation lookup. (The payload takes
\* session.getId() when it is built, after the await; a null identifier is
\* the first way it can differ from the session of the call.)
C35_PayloadHasSession ==
  lastSend.result = "sent" => lastSend.session # 0

\* The events the page and the timers send in a session.
SessionEvents == {"custom_event", "ping", "page_view", "conversion"}

\* C36: after a successful init the session_start event is the first event of
\* the session handed to the transport: when a click, ping, page_view or
\* conversion event of the running session is handed over, the EventTracker
\* of that session has handed over its session_start already.
C36_SessionStartFirst ==
  (/\ lastSend.result = "sent"
   /\ lastSend.key[1] \in SessionEvents
   /\ lastSend.session # 0)
    => \E h \in handoffs : h.key[1] = "session_start"

\* C37: GeolocationManager.isRequesting is true only while a platform lookup
\* is outstanding: once the lookup has completed, with a position or with an
\* error, the flag is false again (and a later call can ask the platform).
C37_FlagReleased ==
  isRequesting => \E w \in geoWaits : w.geo = "platform"

\* C38: after destroy() or the page's unload no ping timer is running, and
\* none starts again before the next init(), whatever visibility changes
\* follow; and at most one ping timer advances timeSpent.
C38_NoPingAfterEnd ==
  /\ pingEnded => intervals = {}
  /\ Cardinality(intervals) <= 1

====
